---------------------------- MODULE Spec2Model ----------------------------
(***************************************************************************)
(* A model of the chess engine of this repository: the transposition       *)
(* table (transposition.cpp), the iterative-deepening driver               *)
(* (ChessEngine::search, engine.cpp), the root and interior search         *)
(* (search.cpp), the search clock (SearchInfo, types.h), the opening book  *)
(* (book.cpp) and the UCI front-end that runs searches on detached threads *)
(* (uci.cpp).                                                              *)
(*                                                                         *)
(* The chess primitives library (chess.hpp) is outside the repository      *)
(* sources; positions are the nodes of a small explicit game graph that    *)
(* gives, for each position, what the library would answer: its legal      *)
(* moves, hash, check and draw status and static evaluation.               *)
(***************************************************************************)
EXTENDS Integers, Sequences, FiniteSets, TLC

(***************************************************************************)
(* Program constants (types.h).                                            *)
(***************************************************************************)
MAX_DEPTH == 64
MAX_PLY == 128
MATE_VALUE == 30000
MATE_IN_MAX_PLY == MATE_VALUE - MAX_PLY
DEFAULT_HASH_SIZE_MB == 64

TT_NONE == 0
TT_EXACT == 1
TT_LOWER == 2
TT_UPPER == 3

NO_MOVE == 0

(***************************************************************************)
(* Bounds of the model.                                                    *)
(***************************************************************************)
\* number of TranspositionTable calls in a run of SpecTT
MaxCalls == 3
\* newSearch is called at most this many times in a run of SpecTT
MaxAge == 1

(***************************************************************************)
(* Integer conversions of the stores into TTEntry (int16_t, uint8_t).      *)
(***************************************************************************)
ToInt16(x) == ((x + 32768) % 65536) - 32768
ToUint8(x) == x % 256

(***************************************************************************)
(* TranspositionTable.  The table is kept sparsely: `table' maps the       *)
(* indexes that have been written since the last clear() to their entry,   *)
(* every other slot holds the all-zero entry that memset leaves.           *)
(***************************************************************************)
\* sizeof(TTEntry): 8 (hash) + 4 (Move) + 2 + 2 + 1 + 1 + 1, padded to 8-byte alignment
SizeofTTEntry == 24

ZeroEntry == [hash |-> 0, move |-> NO_MOVE, score |-> 0, eval |-> 0,
              depth |-> 0, flag |-> TT_NONE, age |-> 0]

RECURSIVE PowerAbove(_, _)
\* the loop `while (power <= table_size_) power <<= 1'
PowerAbove(power, table_size) ==
    IF power <= table_size THEN PowerAbove(power * 2, table_size) ELSE power

\* TranspositionTable::TranspositionTable(size_mb), for size_mb >= 0
NewTable(size_mb) ==
    LET size_bytes == size_mb * 1024 * 1024
        table_size == size_bytes \div SizeofTTEntry
    IN  [table |-> <<>>, age |-> 0, size |-> PowerAbove(1, table_size) \div 2]

\* hash & table_mask_, with table_mask_ = table_size_ - 1: the low bits of the
\* hash when table_size_ is a power of two, and every bit of it when
\* table_size_ is 0 (the mask is 0 - 1 in 64 unsigned bits)
getIndex(t, hash) == IF t.size = 0 THEN hash ELSE hash % t.size

EntryAt(t, index) == IF index \in DOMAIN t.table THEN t.table[index] ELSE ZeroEntry

shouldReplace_Always(existing, depth, new_age) == TRUE

shouldReplace(existing, depth, new_age) ==
    IF existing.age # new_age THEN TRUE ELSE depth >= existing.depth

WriteEntry(t, index, e) ==
    [t EXCEPT !.table = [i \in (DOMAIN t.table) \cup {index} |->
                            IF i = index THEN e ELSE t.table[i]]]

store_DropsMove(t, hash, depth, score, flag, move, eval) ==
    LET index == getIndex(t, hash)
        entry == EntryAt(t, index)
    IN  IF entry.hash # hash \/ shouldReplace(entry, depth, t.age)
        THEN WriteEntry(t, index,
                 [hash |-> hash, move |-> entry.move, score |-> ToInt16(score),
                  eval |-> ToInt16(eval), depth |-> ToUint8(depth),
                  flag |-> ToUint8(flag), age |-> t.age])
        ELSE t

store(t, hash, depth, score, flag, move, eval) ==
    LET index == getIndex(t, hash)
        entry == EntryAt(t, index)
    IN  IF entry.hash # hash \/ shouldReplace(entry, depth, t.age)
        THEN WriteEntry(t, index,
                 [hash |-> hash, move |-> move, score |-> ToInt16(score),
                  eval |-> ToInt16(eval), depth |-> ToUint8(depth),
                  flag |-> ToUint8(flag), age |-> t.age])
        ELSE t

\* the pointer probe returns: found = FALSE is nullptr
probe(t, hash) ==
    LET entry == EntryAt(t, getIndex(t, hash))
    IN  IF entry.hash = hash THEN [found |-> TRUE, entry |-> entry]
                             ELSE [found |-> FALSE, entry |-> ZeroEntry]

clear(t) == [t EXCEPT !.table = <<>>, !.age = 0]

newSearch(t) == [t EXCEPT !.age = (t.age + 1) % 256]

(***************************************************************************)
(* Moves, as the library encodes them in 16 bits: type in bits 14-15,      *)
(* promotion piece in bits 12-13, from-square in bits 6-11, to-square in   *)
(* bits 0-5.  NO_MOVE is 0.                                                *)
(***************************************************************************)
NORMAL == 0
PROMOTION == 16384
ENPASSANT == 32768
CASTLING == 49152

MakeMoveCode(type, from, to) == type + from * 64 + to
MoveFrom(m) == (m \div 64) % 64
MoveTo(m) == m % 64
MoveTypeOf(m) == (m \div 16384) * 16384

\* PieceType of the library
PAWN == 0
KNIGHT == 1
BISHOP == 2
ROOK == 3
QUEEN == 4
KING == 5
PT_NONE == 6

WHITE == 0
BLACK == 1

(***************************************************************************)
(* The game graph.  Each position gives what the board library answers     *)
(* for it: side to move, the piece type on each occupied square, inCheck,  *)
(* isRepetition or isHalfMoveDraw, hasNonPawnMaterial(side to move), the   *)
(* zobrist hash, the static evaluation (for the side to move), the legal   *)
(* moves in generation order with the position each leads to, and the      *)
(* position after a null move (NoPos where the model never makes one).     *)
(*                                                                         *)
(*   0 (white)  --Ra1a2--> 1     --Nb1c3--> 2                              *)
(*   1 (black)  --Nb8c6--> 3     --Nb8a6--> 4                              *)
(*   2 black is stalemated; 3 white is checkmated                          *)
(*   4 (white)  --Ra2xa6--> 5 ;  5 (black) has no legal move               *)
(*                                                                         *)
(* Positions 1 and 2 have hashes that fall into the same table slot for    *)
(* every table size up to the default one.                                 *)
(*                                                                         *)
(* Positions 6 to 20 are set up with "position fen" and are not reachable  *)
(* from position 0:                                                        *)
(*                                                                         *)
(*   6 (white)  --Bc1d2--> 7                                               *)
(*   7 (black)  --Rh8h7--> 11    --Rh8h1+--> 8                             *)
(*   8 (white, in check)  --Ke1e2--> 9    --Ke1f2--> 10                    *)
(*   9, 10 (black) and 11 (white) have no capture; 11 is stalemate         *)
(*                                                                         *)
(*   12 (white) --Kg1f1--> 13 (a repetition)   --Ra1a8#--> 14              *)
(*   15 (white) --Rb1b8#--> 16   --Kh1g1--> 17 (a repetition)              *)
(*   18 (white, halfmove clock 99)                                         *)
(*              --Kg1f1--> 19    --Qd1d8#--> 20                            *)
(*   in 14, 16 and 20 black is checkmated; in 19 and 20 the halfmove clock *)
(*   is 100, so that isHalfMoveDraw() answers true for both                *)
(*                                                                         *)
(* Positions 21 to 34 are rook endings in which one position, 25, is       *)
(* reached both four plies below 21 and three plies below 27:              *)
(*                                                                         *)
(*   21 (white) --Kh1h2--> 22 --Kh8h7--> 23 --Kh2g1--> 24 --Kh7g8--> 25    *)
(*   25 (white) --Kg1f1--> 26 (a repetition)                               *)
(*   27 (black) --Rb7b6--> 28 (a repetition)   --Kh8g8--> 29               *)
(*   29 (white) --Ra2a1--> 32 --Rb7b8--> 25                                *)
(*   a null move leads from 29 to 30, from 32 to 33 and from 25 to 34;     *)
(*   30 (black) --Rb7b2--> 31, which white evaluates at -50                *)
(*                                                                         *)
(* Position 35 (white; black has just played d7d5) has two quiet moves,    *)
(* Kg1f1 and Ra1b1, and three captures: Ra1xa6 takes a knight, b7xa8       *)
(* promotes and takes a rook, e5xd6 takes the pawn d5 en passant.  Only    *)
(* its moves are ordered, none is made.                                    *)
(***************************************************************************)
NoPos == -1
STARTPOS == 0

Ra1a2 == MakeMoveCode(NORMAL, 0, 8)
Nb1c3 == MakeMoveCode(NORMAL, 1, 18)
Nb8c6 == MakeMoveCode(NORMAL, 57, 42)
Nb8a6 == MakeMoveCode(NORMAL, 57, 40)
Ra2xa6 == MakeMoveCode(NORMAL, 8, 40)
Bc1d2 == MakeMoveCode(NORMAL, 2, 11)
Rh8h7 == MakeMoveCode(NORMAL, 63, 55)
Rh8h1 == MakeMoveCode(NORMAL, 63, 7)
Ke1e2 == MakeMoveCode(NORMAL, 4, 12)
Ke1f2 == MakeMoveCode(NORMAL, 4, 13)
Kg1f1 == MakeMoveCode(NORMAL, 6, 5)
Ra1a8 == MakeMoveCode(NORMAL, 0, 56)
Rb1b8 == MakeMoveCode(NORMAL, 1, 57)
Kh1g1 == MakeMoveCode(NORMAL, 7, 6)
Qd1d8 == MakeMoveCode(NORMAL, 3, 59)
Kh1h2 == MakeMoveCode(NORMAL, 7, 15)
Kh8h7 == MakeMoveCode(NORMAL, 63, 55)
Kh2g1 == MakeMoveCode(NORMAL, 15, 6)
Kh7g8 == MakeMoveCode(NORMAL, 55, 62)
Rb7b6 == MakeMoveCode(NORMAL, 49, 41)
Kh8g8 == MakeMoveCode(NORMAL, 63, 62)
Ra2a1 == MakeMoveCode(NORMAL, 8, 0)
Rb7b8 == MakeMoveCode(NORMAL, 49, 57)
Rb7b2 == MakeMoveCode(NORMAL, 49, 9)
Ra1b1 == MakeMoveCode(NORMAL, 0, 1)
Ra1xa6 == MakeMoveCode(NORMAL, 0, 40)
b7xa8 == MakeMoveCode(PROMOTION, 49, 56)
e5xd6 == MakeMoveCode(ENPASSANT, 36, 43)
Ra2a3 == MakeMoveCode(NORMAL, 8, 16)
Rb8b1 == MakeMoveCode(NORMAL, 57, 1)
Rb8c8 == MakeMoveCode(NORMAL, 57, 58)
Rb8d8 == MakeMoveCode(NORMAL, 57, 59)
Rb8e8 == MakeMoveCode(NORMAL, 57, 60)
Rb8b7 == MakeMoveCode(NORMAL, 57, 49)
Kg8h8 == MakeMoveCode(NORMAL, 62, 63)
Kg1h1 == MakeMoveCode(NORMAL, 6, 7)
Qa1xa8 == MakeMoveCode(NORMAL, 0, 56)
e2e4 == MakeMoveCode(NORMAL, 12, 28)
Ra8xa1 == MakeMoveCode(NORMAL, 56, 0)
Rf1xa1 == MakeMoveCode(NORMAL, 5, 0)
d4xe3 == MakeMoveCode(ENPASSANT, 27, 20)

\* kings on g1 and g8 behind their pawns, a white rook on wr and a black
\* rook on br
BackRank(wr, br) ==
    (6 :> KING @@ 13 :> PAWN @@ 14 :> PAWN @@ 15 :> PAWN @@ wr :> ROOK
     @@ 62 :> KING @@ 53 :> PAWN @@ 54 :> PAWN @@ 55 :> PAWN @@ br :> ROOK)

\* a position with no legal move, or one the search never generates moves for
Leaf(stm, check, draw, hash, eval, at) ==
    [stm |-> stm, check |-> check, draw |-> draw, npm |-> TRUE, hash |-> hash,
     eval |-> eval, nullTo |-> NoPos, at |-> at, moves |-> << >>]

\* a position that is not in check and is no draw
Node(stm, hash, eval, at, moves) ==
    [stm |-> stm, check |-> FALSE, draw |-> FALSE, npm |-> TRUE, hash |-> hash,
     eval |-> eval, nullTo |-> NoPos, at |-> at, moves |-> moves]

Game ==
    [p \in 0..57 |->
       CASE p = 0 -> [stm |-> WHITE, check |-> FALSE, draw |-> FALSE, npm |-> TRUE,
                      hash |-> 7, eval |-> 0, nullTo |-> NoPos,
                      at |-> (4 :> KING @@ 0 :> ROOK @@ 1 :> KNIGHT @@ 60 :> KING @@ 57 :> KNIGHT),
                      moves |-> << [m |-> Ra1a2, to |-> 1], [m |-> Nb1c3, to |-> 2] >>]
         [] p = 1 -> [stm |-> BLACK, check |-> FALSE, draw |-> FALSE, npm |-> TRUE,
                      hash |-> 11, eval |-> -10, nullTo |-> NoPos,
                      at |-> (4 :> KING @@ 8 :> ROOK @@ 1 :> KNIGHT @@ 60 :> KING @@ 57 :> KNIGHT),
                      moves |-> << [m |-> Nb8c6, to |-> 3], [m |-> Nb8a6, to |-> 4] >>]
         [] p = 2 -> [stm |-> BLACK, check |-> FALSE, draw |-> FALSE, npm |-> TRUE,
                      hash |-> 11 + 2097152, eval |-> -30, nullTo |-> NoPos,
                      at |-> (4 :> KING @@ 0 :> ROOK @@ 18 :> KNIGHT @@ 60 :> KING @@ 57 :> KNIGHT),
                      moves |-> << >>]
         [] p = 3 -> [stm |-> WHITE, check |-> TRUE, draw |-> FALSE, npm |-> TRUE,
                      hash |-> 13, eval |-> -50, nullTo |-> NoPos,
                      at |-> (4 :> KING @@ 8 :> ROOK @@ 1 :> KNIGHT @@ 60 :> KING @@ 42 :> KNIGHT),
                      moves |-> << >>]
         [] p = 4 -> [stm |-> WHITE, check |-> FALSE, draw |-> FALSE, npm |-> TRUE,
                      hash |-> 14, eval |-> 40, nullTo |-> NoPos,
                      at |-> (4 :> KING @@ 8 :> ROOK @@ 1 :> KNIGHT @@ 60 :> KING @@ 40 :> KNIGHT),
                      moves |-> << [m |-> Ra2xa6, to |-> 5] >>]
         [] p = 5 -> [stm |-> BLACK, check |-> FALSE, draw |-> FALSE, npm |-> FALSE,
                      hash |-> 17, eval |-> -360, nullTo |-> NoPos,
                      at |-> (4 :> KING @@ 40 :> ROOK @@ 1 :> KNIGHT @@ 60 :> KING),
                      moves |-> << >>]
         [] p = 6 -> Node(WHITE, 21, 10, (4 :> KING @@ 2 :> BISHOP @@ 60 :> KING @@ 63 :> ROOK),
                          << [m |-> Bc1d2, to |-> 7] >>)
         [] p = 7 -> Node(BLACK, 22, -10, (4 :> KING @@ 11 :> BISHOP @@ 60 :> KING @@ 63 :> ROOK),
                          << [m |-> Rh8h7, to |-> 11], [m |-> Rh8h1, to |-> 8] >>)
         [] p = 8 -> [Node(WHITE, 23, -40, (4 :> KING @@ 11 :> BISHOP @@ 60 :> KING @@ 7 :> ROOK),
                           << [m |-> Ke1e2, to |-> 9], [m |-> Ke1f2, to |-> 10] >>)
                         EXCEPT !.check = TRUE]
         [] p = 9 -> Leaf(BLACK, FALSE, FALSE, 24, -20,
                          (12 :> KING @@ 11 :> BISHOP @@ 60 :> KING @@ 7 :> ROOK))
         [] p = 10 -> Leaf(BLACK, FALSE, FALSE, 25, -35,
                           (13 :> KING @@ 11 :> BISHOP @@ 60 :> KING @@ 7 :> ROOK))
         [] p = 11 -> Leaf(WHITE, FALSE, FALSE, 26, 0,
                           (4 :> KING @@ 11 :> BISHOP @@ 60 :> KING @@ 55 :> ROOK))
         [] p = 12 -> Node(WHITE, 27, 500, (6 :> KING @@ 0 :> ROOK @@ 62 :> KING),
                           << [m |-> Kg1f1, to |-> 13], [m |-> Ra1a8, to |-> 14] >>)
         [] p = 13 -> Leaf(BLACK, FALSE, TRUE, 28, -500, (5 :> KING @@ 0 :> ROOK @@ 62 :> KING))
         [] p = 14 -> Leaf(BLACK, TRUE, FALSE, 29, -500, (6 :> KING @@ 56 :> ROOK @@ 62 :> KING))
         [] p = 15 -> Node(WHITE, 30, 500, (7 :> KING @@ 1 :> ROOK @@ 63 :> KING),
                           << [m |-> Rb1b8, to |-> 16], [m |-> Kh1g1, to |-> 17] >>)
         [] p = 16 -> Leaf(BLACK, TRUE, FALSE, 31, -500, (7 :> KING @@ 57 :> ROOK @@ 63 :> KING))
         [] p = 17 -> Leaf(BLACK, FALSE, TRUE, 32, -500, (6 :> KING @@ 1 :> ROOK @@ 63 :> KING))
         [] p = 18 -> Node(WHITE, 33, 900, (6 :> KING @@ 3 :> QUEEN @@ 62 :> KING),
                           << [m |-> Kg1f1, to |-> 19], [m |-> Qd1d8, to |-> 20] >>)
         [] p = 19 -> Leaf(BLACK, FALSE, TRUE, 34, -900, (5 :> KING @@ 3 :> QUEEN @@ 62 :> KING))
         [] p = 20 -> Leaf(BLACK, TRUE, TRUE, 35, -900, (6 :> KING @@ 59 :> QUEEN @@ 62 :> KING))
         [] p = 21 -> Node(WHITE, 36, 0, (7 :> KING @@ 0 :> ROOK @@ 63 :> KING @@ 57 :> ROOK),
                           << [m |-> Kh1h2, to |-> 22] >>)
         [] p = 22 -> Node(BLACK, 37, 0, (15 :> KING @@ 0 :> ROOK @@ 63 :> KING @@ 57 :> ROOK),
                           << [m |-> Kh8h7, to |-> 23] >>)
         [] p = 23 -> Node(WHITE, 38, 0, (15 :> KING @@ 0 :> ROOK @@ 55 :> KING @@ 57 :> ROOK),
                           << [m |-> Kh2g1, to |-> 24] >>)
         [] p = 24 -> Node(BLACK, 39, 0, (6 :> KING @@ 0 :> ROOK @@ 55 :> KING @@ 57 :> ROOK),
                           << [m |-> Kh7g8, to |-> 25] >>)
         [] p = 25 -> [Node(WHITE, 40, 0, (6 :> KING @@ 0 :> ROOK @@ 62 :> KING @@ 57 :> ROOK),
                            << [m |-> Kg1f1, to |-> 26] >>)
                          EXCEPT !.nullTo = 34]
         [] p = 26 -> Leaf(BLACK, FALSE, TRUE, 41, 0,
                           (5 :> KING @@ 0 :> ROOK @@ 62 :> KING @@ 57 :> ROOK))
         [] p = 27 -> Node(BLACK, 42, 0, (6 :> KING @@ 8 :> ROOK @@ 63 :> KING @@ 49 :> ROOK),
                           << [m |-> Rb7b6, to |-> 28], [m |-> Kh8g8, to |-> 29] >>)
         [] p = 28 -> Leaf(WHITE, FALSE, TRUE, 43, 0,
                           (6 :> KING @@ 8 :> ROOK @@ 63 :> KING @@ 41 :> ROOK))
         [] p = 29 -> [Node(WHITE, 44, 0, (6 :> KING @@ 8 :> ROOK @@ 62 :> KING @@ 49 :> ROOK),
                            << [m |-> Ra2a1, to |-> 32] >>)
                          EXCEPT !.nullTo = 30]
         [] p = 30 -> Node(BLACK, 45, 0, (6 :> KING @@ 8 :> ROOK @@ 62 :> KING @@ 49 :> ROOK),
                           << [m |-> Rb7b2, to |-> 31] >>)
         [] p = 31 -> Leaf(WHITE, FALSE, FALSE, 46, -50,
                           (6 :> KING @@ 8 :> ROOK @@ 62 :> KING @@ 9 :> ROOK))
         [] p = 32 -> [Node(BLACK, 47, 0, (6 :> KING @@ 0 :> ROOK @@ 62 :> KING @@ 49 :> ROOK),
                            << [m |-> Rb7b8, to |-> 25] >>)
                          EXCEPT !.nullTo = 33]
         [] p = 33 -> Leaf(WHITE, FALSE, FALSE, 48, 10,
                           (6 :> KING @@ 0 :> ROOK @@ 62 :> KING @@ 49 :> ROOK))
         [] p = 34 -> Leaf(BLACK, FALSE, FALSE, 49, 0,
                           (6 :> KING @@ 0 :> ROOK @@ 62 :> KING @@ 57 :> ROOK))
         [] p = 35 -> Node(WHITE, 50, 300,
                           (6 :> KING @@ 0 :> ROOK @@ 36 :> PAWN @@ 49 :> PAWN @@
                            62 :> KING @@ 56 :> ROOK @@ 40 :> KNIGHT @@ 35 :> PAWN),
                           << [m |-> Kg1f1, to |-> NoPos], [m |-> Ra1b1, to |-> NoPos],
                              [m |-> Ra1xa6, to |-> NoPos], [m |-> b7xa8, to |-> NoPos],
                              [m |-> e5xd6, to |-> NoPos] >>)
         \* 36..46: a back-rank position.  Ra2a3 allows Rb8b1 mate; after
         \* Ra2a1 Black has five quiet moves (39), each to a position that
         \* repeats an earlier one
         [] p = 36 -> Node(WHITE, 51, 0, BackRank(8, 57),
                           << [m |-> Ra2a3, to |-> 37], [m |-> Ra2a1, to |-> 39] >>)
         [] p = 37 -> [Node(BLACK, 52, 0, BackRank(16, 57), << [m |-> Rb8b1, to |-> 38] >>)
                          EXCEPT !.nullTo = 46]
         [] p = 38 -> Leaf(WHITE, TRUE, FALSE, 53, -500, BackRank(16, 1))
         [] p = 39 -> [Node(BLACK, 54, 0, BackRank(0, 57),
                            << [m |-> Rb8c8, to |-> 40], [m |-> Rb8d8, to |-> 41],
                               [m |-> Rb8e8, to |-> 42], [m |-> Rb8b7, to |-> 43],
                               [m |-> Kg8h8, to |-> 44] >>)
                          EXCEPT !.nullTo = 45]
         [] p = 40 -> Leaf(WHITE, FALSE, TRUE, 55, 0, BackRank(0, 58))
         [] p = 41 -> Leaf(WHITE, FALSE, TRUE, 56, 0, BackRank(0, 59))
         [] p = 42 -> Leaf(WHITE, FALSE, TRUE, 57, 0, BackRank(0, 60))
         [] p = 43 -> Leaf(WHITE, FALSE, TRUE, 58, 0, BackRank(0, 49))
         [] p = 44 -> Leaf(WHITE, FALSE, TRUE, 59, 0,
                           [s \in (DOMAIN BackRank(0, 57) \ {62}) \cup {63} |->
                              IF s = 63 THEN KING ELSE BackRank(0, 57)[s]])
         [] p = 45 -> Leaf(WHITE, FALSE, FALSE, 60, 0, BackRank(0, 57))
         [] p = 46 -> Leaf(WHITE, FALSE, FALSE, 61, 0, BackRank(16, 57))
         \* 47..51: a pawn ending, no side has a piece; both king moves of
         \* 47 lead to repetitions, at once or a move later
         [] p = 47 -> [Node(WHITE, 62, 0, (6 :> KING @@ 15 :> PAWN @@ 62 :> KING @@ 55 :> PAWN),
                            << [m |-> Kg1f1, to |-> 50], [m |-> Kg1h1, to |-> 48] >>)
                          EXCEPT !.npm = FALSE]
         [] p = 48 -> [Node(BLACK, 63, 0, (7 :> KING @@ 15 :> PAWN @@ 62 :> KING @@ 55 :> PAWN),
                            << [m |-> Kg8h8, to |-> 51] >>)
                          EXCEPT !.npm = FALSE, !.nullTo = 49]
         [] p = 49 -> [Leaf(WHITE, FALSE, FALSE, 64, 0,
                            (7 :> KING @@ 15 :> PAWN @@ 62 :> KING @@ 55 :> PAWN))
                          EXCEPT !.npm = FALSE]
         [] p = 50 -> [Leaf(BLACK, FALSE, TRUE, 65, 0,
                            (5 :> KING @@ 15 :> PAWN @@ 62 :> KING @@ 55 :> PAWN))
                          EXCEPT !.npm = FALSE]
         [] p = 51 -> [Leaf(WHITE, FALSE, TRUE, 66, 0,
                            (7 :> KING @@ 15 :> PAWN @@ 63 :> KING @@ 55 :> PAWN))
                          EXCEPT !.npm = FALSE]
         \* 52..57: captures for quiescence.  White takes the rook on a8
         \* (53) or plays e2e4 (54), after which Black can take the queen
         \* on a1 or the pawn en passant
         [] p = 52 -> Node(WHITE, 67, 400,
                           (6 :> KING @@ 5 :> ROOK @@ 0 :> QUEEN @@ 12 :> PAWN @@
                            62 :> KING @@ 56 :> ROOK @@ 27 :> PAWN),
                           << [m |-> e2e4, to |-> 54], [m |-> Qa1xa8, to |-> 53] >>)
         [] p = 53 -> Leaf(BLACK, TRUE, FALSE, 68, -500,
                           (6 :> KING @@ 5 :> ROOK @@ 56 :> QUEEN @@ 12 :> PAWN @@
                            62 :> KING @@ 27 :> PAWN))
         [] p = 54 -> Node(BLACK, 69, -750,
                           (6 :> KING @@ 5 :> ROOK @@ 0 :> QUEEN @@ 28 :> PAWN @@
                            62 :> KING @@ 56 :> ROOK @@ 27 :> PAWN),
                           << [m |-> d4xe3, to |-> 57], [m |-> Ra8xa1, to |-> 55] >>)
         [] p = 55 -> Node(WHITE, 70, 0,
                           (6 :> KING @@ 5 :> ROOK @@ 0 :> ROOK @@ 28 :> PAWN @@
                            62 :> KING @@ 27 :> PAWN),
                           << [m |-> Rf1xa1, to |-> 56] >>)
         [] p = 56 -> Leaf(BLACK, FALSE, FALSE, 71, -520,
                           (6 :> KING @@ 0 :> ROOK @@ 28 :> PAWN @@ 62 :> KING @@ 27 :> PAWN))
         [] p = 57 -> Leaf(WHITE, FALSE, FALSE, 72, 650,
                           (6 :> KING @@ 5 :> ROOK @@ 0 :> QUEEN @@ 20 :> PAWN @@
                            62 :> KING @@ 56 :> ROOK))]

Positions == DOMAIN Game

\* the game graph as the board library holds it during a run: Init sets it
\* to Game and no action changes it
VARIABLE game

\* board.at(sq).type()
PieceAt(p, sq) == IF sq \in DOMAIN game[p].at THEN game[p].at[sq] ELSE PT_NONE

\* chess::movegen::legalmoves(moves, board)
LegalMoves(p) == [k \in 1..Len(game[p].moves) |-> game[p].moves[k].m]

\* the position board.makeMove(m) leads to, for a legal move m of p
PosAfter(p, m) ==
    LET k == CHOOSE k \in 1..Len(game[p].moves) : game[p].moves[k].m = m
    IN  game[p].moves[k].to

\* board.isCapture(move)
isCapture(p, m) ==
    (PieceAt(p, MoveTo(m)) # PT_NONE /\ MoveTypeOf(m) # CASTLING) \/ MoveTypeOf(m) = ENPASSANT

\* chess::movegen::legalmoves<CAPTURE>(moves, board)
CaptureMoves(p) ==
    LET Keep(m) == isCapture(p, m)
    IN  SelectSeq(LegalMoves(p), Keep)

(***************************************************************************)
(* A board object: the current position and the positions to return to on  *)
(* unmakeMove / unmakeNullMove.                                            *)
(***************************************************************************)
BoardAt(p) == [pos |-> p, prev |-> <<>>]
makeMove(b, m) == [pos |-> PosAfter(b.pos, m), prev |-> Append(b.prev, b.pos)]
makeNullMove(b) == [pos |-> game[b.pos].nullTo, prev |-> Append(b.prev, b.pos)]
\* a variant that leaves the move on the board
unmakeMove_Leaves(b) == b

unmakeMove(b) == [pos |-> b.prev[Len(b.prev)], prev |-> SubSeq(b.prev, 1, Len(b.prev) - 1)]

(***************************************************************************)
(* Move ordering state of Search: history_[color][from][to] and            *)
(* killer_moves_[ply][2].  Both are kept sparsely; a cell that is absent   *)
(* holds the 0 that clearHistory's memset wrote.                           *)
(***************************************************************************)
MVV_LVA(victim, attacker) ==
    IF victim = KING THEN 0 ELSE 10 * (victim + 1) + (5 - attacker)

HistoryAt(h, color, from, to) ==
    IF <<color, from, to>> \in DOMAIN h THEN h[<<color, from, to>>] ELSE 0

KillerAt(k, ply, slot) == IF ply \in DOMAIN k THEN k[ply][slot] ELSE 0

\* s is the Search object: s.hist is history_, s.killers is killer_moves_
getMoveScore(s, move, p, hash_move, ply) ==
    IF move = hash_move THEN 1000000
    ELSE IF isCapture(p, move)
         THEN LET victim == PieceAt(p, MoveTo(move))
                  attacker == PieceAt(p, MoveFrom(move))
              IN  IF victim # PT_NONE /\ attacker # PT_NONE
                  THEN 10000 + MVV_LVA(victim, attacker)
                  ELSE 0
    ELSE IF ply < MAX_PLY /\ (move = KillerAt(s.killers, ply, 1) \/ move = KillerAt(s.killers, ply, 2))
         THEN 9000
    ELSE HistoryAt(s.hist, game[p].stm, MoveFrom(move), MoveTo(move))

RECURSIVE InsertSorted(_, _)
\* insert x = [m, sc] before the elements at the end of `sorted' that score less
InsertSorted(sorted, x) ==
    IF sorted = <<>> THEN <<x>>
    ELSE IF x.sc > sorted[Len(sorted)].sc
         THEN Append(InsertSorted(SubSeq(sorted, 1, Len(sorted) - 1), x), sorted[Len(sorted)])
         ELSE Append(sorted, x)

RECURSIVE SortDescending(_)
\* std::sort with the comparator score(a) > score(b); a range this short is
\* sorted by insertion, which keeps the order of moves that score the same
SortDescending(scored) ==
    IF scored = <<>> THEN <<>>
    ELSE InsertSorted(SortDescending(SubSeq(scored, 1, Len(scored) - 1)), scored[Len(scored)])

orderMoves(s, moves, p, hash_move, ply) ==
    LET scored == [k \in 1..Len(moves) |->
                      [m |-> moves[k], sc |-> getMoveScore(s, moves[k], p, hash_move, ply)]]
        sorted == SortDescending(scored)
    IN  [k \in 1..Len(sorted) |-> sorted[k].m]

\* a variant whose halving runs over both colours
updateHistory_HalvesAll(h, move, color, depth) ==
    LET key == <<color, MoveFrom(move), MoveTo(move)>>
        added == [c \in (DOMAIN h) \cup {key} |->
                    IF c = key THEN HistoryAt(h, color, key[2], key[3]) + depth * depth
                               ELSE h[c]]
    IN  IF added[key] > 10000
        THEN [c \in DOMAIN added |-> added[c] \div 2]
        ELSE added

\* lines 493-512
updateHistory(h, move, color, depth) ==
    LET key == <<color, MoveFrom(move), MoveTo(move)>>
        added == [c \in (DOMAIN h) \cup {key} |->
                    IF c = key THEN HistoryAt(h, color, key[2], key[3]) + depth * depth
                               ELSE h[c]]
    IN  IF added[key] > 10000
        THEN [c \in DOMAIN added |-> IF c[1] = color THEN added[c] \div 2 ELSE added[c]]
        ELSE added

updateKillers(k, move, ply) ==
    IF ply < MAX_PLY /\ KillerAt(k, ply, 1) # move
    THEN [q \in (DOMAIN k) \cup {ply} |->
            IF q = ply THEN <<move, KillerAt(k, ply, 1)>> ELSE k[q]]
    ELSE k

\* p is the board after the move has been made
getExtension(move, p, in_check) ==
    IF game[p].check THEN 1
    ELSE IF MoveTypeOf(move) = PROMOTION THEN 1
    ELSE 0

Max(a, b) == IF a >= b THEN a ELSE b
Min(a, b) == IF a <= b THEN a ELSE b

getReduction(move, depth, move_count, pv_node) ==
    IF pv_node THEN Max(0, depth \div 6 + move_count \div 8 - 1)
               ELSE Max(0, depth \div 4 + move_count \div 6)

canDoNullMove_Always(p) == TRUE

\* lines 476-480: board.hasNonPawnMaterial(board.sideToMove())
canDoNullMove(p) == game[p].npm


(***************************************************************************)
(* State.                                                                  *)
(*   game       the game graph (declared with it above; never changes)     *)
(*   now        the steady clock, in milliseconds                          *)
(*   board      ChessEngine::board_ (a position of the game graph)         *)
(*   tt         ChessEngine::tt_ (the table Search::tt_ points to)         *)
(*   info       ChessEngine::search_info_                                  *)
(*   searching  ChessEngine::searching_                                    *)
(*   srch       the Search object's history_ and killer_moves_             *)
(*   book       the OpeningBook: entries_ and loaded_                      *)
(*   th         the detached threads handleGo creates, one per go          *)
(*   call       the last call made on the engine or on the table, with     *)
(*              its arguments and what it found (a history variable)       *)
(***************************************************************************)
VARIABLES now, board, tt, info, searching, srch, book, th, call

vars == <<game, now, board, tt, info, searching, srch, book, th, call>>

(***************************************************************************)
(* SearchInfo (types.h).                                                   *)
(***************************************************************************)
InitInfo == [depth |-> 0, seldepth |-> 0, nodes |-> 0, time_ms |-> 0,
             stopped |-> FALSE, start_time |-> 0, time_limit |-> 0]

reset_KeepsDepth(i, clock) ==
    [i EXCEPT !.seldepth = 0, !.nodes = 0, !.time_ms = 0,
              !.stopped = FALSE, !.start_time = clock]

\* SearchInfo::reset(): time_limit is not among the fields it assigns
reset(i, clock) ==
    [i EXCEPT !.depth = 0, !.seldepth = 0, !.nodes = 0, !.time_ms = 0,
              !.stopped = FALSE, !.start_time = clock]

\* SearchInfo::should_stop()
should_stop(i, clock) ==
    IF i.stopped THEN TRUE
    ELSE IF i.time_limit > 0 THEN clock - i.start_time >= i.time_limit
    ELSE FALSE

\* Search::clearHistory()
clearHistory(s) == [hist |-> <<>>, killers |-> <<>>]

(***************************************************************************)
(* A thread running ChessEngine::search.  The calls of Search::search and  *)
(* Search::quiescence in progress are the frames of `stack'; every call of *)
(* should_stop() is a step of its own, so that the other threads can act   *)
(* between two polls.  The last fields record the history of the request   *)
(* and are read by no step:                                                *)
(*   sawstop  a should_stop() of the request has answered true             *)
(*   flip     a should_stop() has answered false after one answered true   *)
(*   stopreq  stopSearch() was called after the go of the request          *)
(*   missed   a should_stop() has answered false after that stopSearch()   *)
(*   aborted  a should_stop() of the current iteration has answered true   *)
(*   good     result.best_move of the last iteration that was not aborted  *)
(*            and after which the driver's should_stop() answered false    *)
(*   age0     the age of the table when search was called                  *)
(*   rc       the call that returned the value in ret: its kind, the       *)
(*            position, ply and window of its frame when it returned, and  *)
(*            whether it is a return of Search::search (search itself, or  *)
(*            the quiescence whose value search returns) and not one of    *)
(*            the recursive calls of quiescence                            *)
(*   nullpv   a call of search made below a null move has written moves    *)
(*            into the PVLine it was given                                 *)
(***************************************************************************)
NoArgs == [depth |-> 0, movetime |-> 0, wtime |-> 0, btime |-> 0,
           winc |-> 0, binc |-> 0, infinite |-> FALSE]

NoResult == [best_move |-> NO_MOVE, score |-> -MATE_VALUE, nodes |-> 0, pv |-> <<>>]

NoCall == [kind |-> "none", st |-> "none", pos |-> 0, ply |-> 0, alpha |-> 0, beta |-> 0,
           search |-> FALSE]

NoRoot == [moves |-> <<>>, i |-> 0, alpha |-> 0, beta |-> 0, pv_found |-> FALSE,
           cpv |-> <<>>, st |-> "full"]

IdleThread ==
    [pc |-> "idle", args |-> NoArgs, d |-> 0, max_depth |-> 0, best_move |-> NO_MOVE,
     result |-> NoResult, root |-> NoRoot, bc |-> BoardAt(STARTPOS), stack |-> <<>>,
     ret |-> 0, out |-> NO_MOVE, bybook |-> FALSE,
     sawstop |-> FALSE, flip |-> FALSE, stopreq |-> FALSE, missed |-> FALSE,
     aborted |-> FALSE, good |-> NO_MOVE, age0 |-> 0, rc |-> NoCall, nullpv |-> FALSE]

\* a call of Search::search (kind "search") or Search::quiescence (kind "qs")
NewFrame(kind, depth, ply, alpha, beta, nma, pvref) ==
    [kind |-> kind, st |-> "enter", depth |-> depth, ply |-> ply, alpha |-> alpha,
     beta |-> beta, nma |-> nma, pvref |-> pvref, in_check |-> FALSE, pv_node |-> FALSE,
     hash_move |-> NO_MOVE, moves |-> <<>>, i |-> 0, best_score |-> 0,
     best_move |-> NO_MOVE, flag |-> TT_UPPER, lmf |-> FALSE, new_depth |-> 0,
     cpv |-> <<>>, stand_pat |-> 0]

Top(w) == w.stack[Len(w.stack)]

SetTop(w, f) == [w EXCEPT !.stack[Len(w.stack)] = f]

\* a call: the callee's frame goes on the stack
Push(w, f) == [w EXCEPT !.stack = Append(@, f), !.pc = "search"]

\* a return: the frame leaves the stack and the value reaches the caller
Return(w, v) ==
    LET f == Top(w)
        n == Len(w.stack)
    IN  [w EXCEPT !.stack = SubSeq(@, 1, n - 1), !.ret = v,
                  !.rc = [kind |-> f.kind, st |-> f.st, pos |-> w.bc.pos, ply |-> f.ply,
                          alpha |-> f.alpha, beta |-> f.beta,
                          search |-> n = 1 \/ w.stack[n - 1].kind = "search"],
                  !.pc = IF n = 1 THEN "rootRet" ELSE "search"]

\* the PVLine a frame was given by reference: searchRoot's local pv (0) or
\* the child_pv of the frame at that height of the stack
SetPv(w, ref, line) ==
    IF ref = 0 THEN [w EXCEPT !.root.cpv = line]
               ELSE [w EXCEPT !.stack[ref].cpv = line]

\* PVLine::push drops what does not fit
PvOf(move, child) == SubSeq(<<move>> \o child, 1, Min(MAX_DEPTH, 1 + Len(child)))

\* what a call of should_stop() that answered `stop' adds to the history
Polled(w, stop) ==
    [w EXCEPT !.sawstop = @ \/ stop, !.aborted = @ \/ stop,
              !.flip = @ \/ (w.sawstop /\ ~stop),
              !.missed = @ \/ (w.stopreq /\ ~stop)]

(***************************************************************************)
(* Search::search, one step at a time.  w is the thread, sh the shared     *)
(* objects [info, tt, srch] the step reads and writes, stop the answer of  *)
(* the should_stop() call the step makes (if it makes one).  A step gives  *)
(* the new thread and the new shared objects.                              *)
(***************************************************************************)
Out(w, sh) == [w |-> w, sh |-> sh]

\* a variant that adds the ply to every score
StoreScore_EveryScore(best_score, ply) == best_score + ply

\* lines 296-305: the score search stores for best_score at ply
StoreScore(best_score, ply) ==
    IF best_score > MATE_IN_MAX_PLY THEN best_score + ply
    ELSE IF best_score < -MATE_IN_MAX_PLY THEN best_score - ply
    ELSE best_score

\* lines 138-148: the score search reads from an entry at ply
TTScore(score, ply) ==
    IF score > MATE_IN_MAX_PLY THEN score - ply
    ELSE IF score < -MATE_IN_MAX_PLY THEN score + ply
    ELSE score

\* lines 291-309: leave the move loop, store the node and return
PostLoop(w, sh, f) ==
    IF ~f.lmf
    THEN Out(Return(w, IF f.in_check THEN -MATE_VALUE + f.ply ELSE 0), sh)
    ELSE LET store_score == StoreScore(f.best_score, f.ply)
             tt1 == store(sh.tt, game[w.bc.pos].hash, f.depth, store_score, f.flag,
                          f.best_move, 0)
         IN  Out(Return(w, f.best_score), [sh EXCEPT !.tt = tt1])

\* lines 181-196: generate and order the moves, initialise the loop
MoveGen(w, sh, f) ==
    LET p == w.bc.pos
        moves == LegalMoves(p)
    IN  IF moves = <<>>
        THEN Out(Return(w, IF f.in_check THEN -MATE_VALUE + f.ply ELSE 0), sh)
        ELSE Out(SetTop(w, [f EXCEPT !.moves = orderMoves(sh.srch, moves, p, f.hash_move, f.ply),
                                     !.i = 0, !.best_score = -MATE_VALUE,
                                     !.best_move = NO_MOVE, !.flag = TT_UPPER,
                                     !.lmf = FALSE, !.st = "loop"]), sh)

DrawCheck_Never(ply, p) == FALSE

\* line 115: board.isRepetition() || board.isHalfMoveDraw(), below the root
DrawCheck(ply, p) == ply > 0 /\ game[p].draw

\* lines 98-179: entry of search up to the first call it makes
SearchEnter(w0, sh, stop) ==
    LET f0 == Top(w0)
        w == Polled(SetPv(w0, f0.pvref, <<>>), stop)
        p == w.bc.pos
    IN  IF stop THEN Out(Return(w, 0), sh)
        ELSE
        LET sh1 == [sh EXCEPT !.info.nodes = @ + 1]
            \* mateDistancePruning
            alpha == Max(f0.alpha, -MATE_VALUE + f0.ply)
            beta == Min(f0.beta, MATE_VALUE - f0.ply - 1)
            in_check == game[p].check
            pv_node == beta - alpha > 1
            pr == probe(sh.tt, game[p].hash)
            hit == pr.found /\ pr.entry.hash = game[p].hash
            hash_move == IF hit THEN pr.entry.move ELSE NO_MOVE
            tt_score == TTScore(pr.entry.score, f0.ply)
            cut == /\ hit /\ pr.entry.depth >= f0.depth /\ ~pv_node
                   /\ \/ pr.entry.flag = TT_EXACT
                      \/ pr.entry.flag = TT_LOWER /\ tt_score >= beta
                      \/ pr.entry.flag = TT_UPPER /\ tt_score <= alpha
            f == [f0 EXCEPT !.alpha = alpha, !.beta = beta, !.in_check = in_check,
                            !.pv_node = pv_node, !.hash_move = hash_move]
        IN  IF alpha >= beta THEN Out(Return(w, alpha), sh1)
            ELSE IF DrawCheck(f0.ply, p) THEN Out(Return(w, 0), sh1)
            ELSE IF f0.depth <= 0
                 THEN Out(SetTop(w, NewFrame("qs", 0, f0.ply, alpha, beta, FALSE, f0.pvref)), sh1)
            ELSE IF cut THEN Out(Return(w, tt_score), sh1)
            ELSE IF f0.nma /\ ~pv_node /\ ~in_check /\ f0.depth >= 3 /\ canDoNullMove(p)
                 THEN LET R == 3 + f0.depth \div 6
                          w1 == [SetTop(w, [f EXCEPT !.st = "null"])
                                    EXCEPT !.bc = makeNullMove(w.bc)]
                      IN  Out(Push(w1, NewFrame("search", f0.depth - R - 1, f0.ply + 1,
                                                -beta, -beta + 1, FALSE, f0.pvref)), sh1)
            ELSE MoveGen(w, sh1, f)

\* lines 198-247: the loop condition and the first search of the next move
SearchLoop(w0, sh, stop) ==
    LET f == Top(w0)
        w == Polled(w0, stop)
    IN  IF stop THEN PostLoop(w, sh, f)
        ELSE
        LET move == f.moves[f.i + 1]
            b1 == makeMove(w.bc, move)
            new_depth == f.depth - 1 + getExtension(move, b1.pos, f.in_check)
            lmr == /\ f.i >= 4 /\ f.depth >= 3 /\ ~f.in_check /\ ~game[b1.pos].check
                   /\ MoveTypeOf(move) = NORMAL /\ ~isCapture(b1.pos, move)
            here == Len(w.stack)
            child == IF lmr
                     THEN NewFrame("search",
                                   new_depth - getReduction(move, f.depth, f.i, f.pv_node),
                                   f.ply + 1, -f.alpha - 1, -f.alpha, TRUE, here)
                     ELSE IF f.i = 0 \/ f.pv_node
                     THEN NewFrame("search", new_depth, f.ply + 1, -f.beta, -f.alpha, TRUE, here)
                     ELSE NewFrame("search", new_depth, f.ply + 1, -f.alpha - 1, -f.alpha,
                                   TRUE, here)
            st == IF lmr THEN "lmr1" ELSE IF f.i = 0 \/ f.pv_node THEN "full" ELSE "zw"
            w1 == [SetTop(w, [f EXCEPT !.lmf = TRUE, !.new_depth = new_depth,
                                       !.cpv = <<>>, !.st = st])
                      EXCEPT !.bc = b1]
        IN  Out(Push(w1, child), sh)

\* lines 249-289: the move has been searched
AfterMove(w0, sh, stop, score) ==
    LET f == Top(w0)
        w == Polled([w0 EXCEPT !.bc = unmakeMove(w0.bc)], stop)
        p == w.bc.pos
        move == f.moves[f.i + 1]
        improved == score > f.best_score
        raised == improved /\ score > f.alpha
        cutoff == raised /\ score >= f.beta
        f1 == [f EXCEPT !.best_score = IF improved THEN score ELSE @,
                        !.best_move = IF improved THEN move ELSE @,
                        !.alpha = IF raised THEN score ELSE @,
                        !.flag = IF cutoff THEN TT_LOWER ELSE IF raised THEN TT_EXACT ELSE @,
                        !.i = IF cutoff THEN @ ELSE @ + 1,
                        !.st = "loop"]
        w1 == IF raised
              THEN [SetPv(w, f.pvref, PvOf(move, f.cpv)) EXCEPT !.nullpv = @ \/ ~f.nma]
              ELSE w
        quiet == cutoff /\ ~isCapture(p, move)
        sh1 == IF quiet
               THEN [sh EXCEPT !.srch.hist = updateHistory(@, move, game[p].stm, f.depth),
                               !.srch.killers = updateKillers(@, move, f.ply)]
               ELSE sh
    IN  IF stop THEN PostLoop(w, sh, f)
        ELSE IF cutoff \/ f1.i >= Len(f.moves) THEN PostLoop(SetTop(w1, f1), sh1, f1)
        ELSE Out(SetTop(w1, f1), sh1)

\* the callee has returned into search: lines 172-179 and 221-247
SearchReturn(w, sh, stop) ==
    LET f == Top(w)
        score == -w.ret
    IN  CASE f.st = "null" ->
               LET w1 == [w EXCEPT !.bc = unmakeMove(w.bc)]
               IN  IF score >= f.beta THEN Out(Return(w1, score), sh)
                                      ELSE MoveGen(w1, sh, f)
          [] f.st = "lmr1" /\ score > f.alpha ->
               Out(Push(SetTop(w, [f EXCEPT !.st = "lmr2"]),
                        NewFrame("search", f.new_depth, f.ply + 1, -f.alpha - 1, -f.alpha,
                                 TRUE, Len(w.stack))), sh)
          [] f.st = "zw" /\ score > f.alpha /\ score < f.beta ->
               Out(Push(SetTop(w, [f EXCEPT !.st = "zwfull", !.cpv = <<>>]),
                        NewFrame("search", f.new_depth, f.ply + 1, -f.beta, -f.alpha,
                                 TRUE, Len(w.stack))), sh)
          [] OTHER -> AfterMove(w, sh, stop, score)

(***************************************************************************)
(* Search::quiescence.  Evaluation::evaluate is the eval of the game       *)
(* graph.                                                                  *)
(***************************************************************************)
\* the switch of lines 353-376
CapturedValue(victim) ==
    CASE victim = PAWN -> 100
      [] victim = KNIGHT -> 320
      [] victim = BISHOP -> 330
      [] victim = ROOK -> 500
      [] victim = QUEEN -> 900
      [] OTHER -> 0

\* lines 314-341: entry of quiescence up to the loop over the captures
QsEnter(w0, sh, stop) ==
    LET f == Top(w0)
        w == Polled(w0, stop)
        p == w.bc.pos
    IN  IF stop THEN Out(Return(w, 0), sh)
        ELSE
        LET sh1 == [sh EXCEPT !.info.nodes = @ + 1]
            stand_pat == game[p].eval
            alpha == Max(f.alpha, stand_pat)
            moves == orderMoves(sh.srch, CaptureMoves(p), p, NO_MOVE, f.ply)
        IN  IF stand_pat >= f.beta THEN Out(Return(w, f.beta), sh1)
            ELSE IF moves = <<>> THEN Out(Return(w, alpha), sh1)
            ELSE Out(SetTop(w, [f EXCEPT !.alpha = alpha, !.stand_pat = stand_pat,
                                         !.moves = moves, !.i = 0, !.st = "loop"]), sh1)

\* lines 343-385: the next capture, up to the recursive call
QsLoop(w0, sh, stop) ==
    LET f == Top(w0)
        w == Polled(w0, stop)
        p == w.bc.pos
        move == f.moves[f.i + 1]
        pruned == /\ ~game[p].check
                  /\ f.stand_pat + CapturedValue(PieceAt(p, MoveTo(move))) + 200 < f.alpha
    IN  IF stop THEN Out(Return(w, f.alpha), sh)
        ELSE IF pruned
             THEN IF f.i + 1 < Len(f.moves)
                  THEN Out(SetTop(w, [f EXCEPT !.i = @ + 1]), sh)
                  ELSE Out(Return(w, f.alpha), sh)
        ELSE Out(Push([SetTop(w, [f EXCEPT !.st = "wait"]) EXCEPT !.bc = makeMove(w.bc, move)],
                      NewFrame("qs", 0, f.ply + 1, -f.beta, -f.alpha, FALSE, 0)), sh)

\* lines 386-399: the recursive call has returned
QsReturn(w0, sh) ==
    LET f == Top(w0)
        w == [w0 EXCEPT !.bc = unmakeMove(w0.bc)]
        score == -w0.ret
        alpha == Max(f.alpha, score)
    IN  IF score >= f.beta THEN Out(Return(w, f.beta), sh)
        ELSE IF f.i + 1 < Len(f.moves)
             THEN Out(SetTop(w, [f EXCEPT !.alpha = alpha, !.i = @ + 1, !.st = "loop"]), sh)
        ELSE Out(Return(w, alpha), sh)

\* the step of a thread inside Search::search or Search::quiescence
InnerStep(w, sh, stop) ==
    LET f == Top(w)
    IN  CASE f.kind = "search" /\ f.st = "enter" -> SearchEnter(w, sh, stop)
          [] f.kind = "search" /\ f.st = "loop" -> SearchLoop(w, sh, stop)
          [] f.kind = "search" /\ f.st \notin {"enter", "loop"} -> SearchReturn(w, sh, stop)
          [] f.kind = "qs" /\ f.st = "enter" -> QsEnter(w, sh, stop)
          [] f.kind = "qs" /\ f.st = "loop" -> QsLoop(w, sh, stop)
          [] f.kind = "qs" /\ f.st = "wait" -> QsReturn(w, sh)

(***************************************************************************)
(* Search::searchRoot.  eboard is the board the caller passed by reference *)
(* (ChessEngine::board_), whose hash keys the root's table entry.          *)
(***************************************************************************)
\* lines 13-35, entered from the driver loop
RootEnter(w, sh, eboard) ==
    LET moves == LegalMoves(eboard)
        w1 == [w EXCEPT !.result = NoResult, !.bc = BoardAt(eboard), !.aborted = FALSE]
    IN  IF moves = <<>>
        THEN Out([w1 EXCEPT !.result.score = IF game[eboard].check THEN -MATE_VALUE ELSE 0,
                            !.pc = "check"], sh)
        ELSE Out([w1 EXCEPT !.root = [moves |-> orderMoves(sh.srch, moves, eboard, NO_MOVE, 0),
                                      i |-> 0, alpha |-> -MATE_VALUE, beta |-> MATE_VALUE,
                                      pv_found |-> FALSE, cpv |-> <<>>, st |-> "full"],
                            !.pc = "rootLoop"], sh)

\* lines 91-92
RootExit(w, sh) ==
    Out([w EXCEPT !.result.nodes = sh.info.nodes, !.root = NoRoot,
                  !.bc = BoardAt(STARTPOS), !.pc = "check"], sh)

\* lines 37-53: the loop condition and the first search of the next root move
RootLoop(w0, sh, stop) ==
    LET w == Polled(w0, stop)
        r == w.root
        move == r.moves[r.i + 1]
        w1 == [w EXCEPT !.bc = makeMove(w.bc, move), !.root.cpv = <<>>,
                        !.root.st = IF r.pv_found THEN "zw" ELSE "full"]
    IN  IF stop THEN RootExit(w, sh)
        ELSE IF ~r.pv_found
             THEN Out(Push(w1, NewFrame("search", w.d - 1, 1, -r.beta, -r.alpha, TRUE, 0)), sh)
        ELSE Out(Push(w1, NewFrame("search", w.d - 1, 1, -r.alpha - 1, -r.alpha, TRUE, 0)), sh)

\* lines 55-89: a search of the root move has returned
RootReturn(w0, sh, stop, eboard) ==
    LET r == w0.root
        score == -w0.ret
        move == r.moves[r.i + 1]
    IN  IF r.st = "zw" /\ score > r.alpha /\ score < r.beta
        THEN Out(Push([w0 EXCEPT !.root.st = "zwfull", !.root.cpv = <<>>],
                      NewFrame("search", w0.d - 1, 1, -r.beta, -r.alpha, TRUE, 0)), sh)
        ELSE
        LET w == Polled([w0 EXCEPT !.bc = unmakeMove(w0.bc)], stop)
            better == score > r.alpha
            w1 == IF better
                  THEN [w EXCEPT !.root.alpha = score, !.root.pv_found = TRUE,
                                 !.result.best_move = move, !.result.score = score,
                                 !.result.pv = PvOf(move, r.cpv)]
                  ELSE w
            sh1 == IF better
                   THEN [sh EXCEPT !.tt = store(@, game[eboard].hash, w.d, score, TT_EXACT,
                                                move, 0)]
                   ELSE sh
            w2 == [w1 EXCEPT !.root.i = @ + 1, !.pc = "rootLoop"]
        IN  IF stop THEN RootExit(w, sh)
            ELSE IF r.i + 1 >= Len(r.moves) THEN RootExit(w2, sh1)
            ELSE Out(w2, sh1)

(***************************************************************************)
(* OpeningBook (book.cpp).  A book file is the sequence of its entries;    *)
(* the file "missing" cannot be opened.                                    *)
(***************************************************************************)
BookFiles == {"missing", "empty", "bookA"}

\* bookA: for key 0 the move b1c3 and a move from a1 to h8
\* bookB: an entry of another key, then for key 0 a1a2 with weight 0, b1c3
\*        and the move from a1 to h8 with weight 0
\* bookC: for key 0 the one move b1c3
\* bookZ: for key 0 two moves of weight 0
FileEntries(file) ==
    CASE file = "bookA" ->
            << [key |-> 0, move |-> 1 * 64 + 18, weight |-> 1],
               [key |-> 0, move |-> 0 * 64 + 63, weight |-> 2] >>
      [] file = "bookB" ->
            << [key |-> 5, move |-> 0 * 64 + 8, weight |-> 7],
               [key |-> 0, move |-> 0 * 64 + 8, weight |-> 0],
               [key |-> 0, move |-> 1 * 64 + 18, weight |-> 3],
               [key |-> 0, move |-> 0 * 64 + 63, weight |-> 0] >>
      [] file = "bookC" ->
            << [key |-> 0, move |-> 1 * 64 + 18, weight |-> 2] >>
      [] file = "bookZ" ->
            << [key |-> 0, move |-> 0 * 64 + 8, weight |-> 0],
               [key |-> 0, move |-> 1 * 64 + 18, weight |-> 0] >>
      [] OTHER -> << >>

InitBook == [entries |-> <<>>, loaded |-> FALSE]

\* the sort by key; entries with the same key keep the order of the file
SortByKey(entries) ==
    LET keyed == [k \in 1..Len(entries) |-> [m |-> entries[k], sc |-> -entries[k].key]]
        sorted == SortDescending(keyed)
    IN  [k \in 1..Len(sorted) |-> sorted[k].m]

loadFromFile(b, file) ==
    IF file = "missing" THEN b
    ELSE [entries |-> SortByKey(FileEntries(file)), loaded |-> FileEntries(file) # <<>>]

\* only the first four of the 781 PolyGlotRandoms have an initialiser, the
\* others are zero; no piece of a legal position selects one of the four
getPolyGlotKey(p) == 0

findEntries(b, key) ==
    LET Match(e) == e.key = key
    IN  SelectSeq(b.entries, Match)

\* board.enpassantSq(): no position of the game graph has one (NO_SQ)
enpassantSq(p) == 64

polyGlotMoveToMove(poly_move, p) ==
    LET from_sq == (poly_move \div 64) % 64
        to_sq == poly_move % 64
        promotion == (poly_move \div 4096) % 8
        promo_type == CASE promotion = 1 -> KNIGHT [] promotion = 2 -> BISHOP
                        [] promotion = 3 -> ROOK [] OTHER -> QUEEN
    IN  IF promotion > 0
        THEN MakeMoveCode(PROMOTION, from_sq, to_sq) + (promo_type - KNIGHT) * 4096
        ELSE IF PieceAt(p, from_sq) = KING /\ from_sq = 4 /\ to_sq = 6
             THEN MakeMoveCode(CASTLING, from_sq, 7)
        ELSE IF PieceAt(p, from_sq) = KING /\ from_sq = 4 /\ to_sq = 2
             THEN MakeMoveCode(CASTLING, from_sq, 0)
        ELSE IF PieceAt(p, from_sq) = KING /\ from_sq = 60 /\ to_sq = 62
             THEN MakeMoveCode(CASTLING, from_sq, 63)
        ELSE IF PieceAt(p, from_sq) = KING /\ from_sq = 60 /\ to_sq = 58
             THEN MakeMoveCode(CASTLING, from_sq, 56)
        ELSE IF PieceAt(p, from_sq) = PAWN /\ to_sq = enpassantSq(p)
             THEN MakeMoveCode(ENPASSANT, from_sq, to_sq)
        ELSE MakeMoveCode(NORMAL, from_sq, to_sq)

RECURSIVE TotalWeight(_)
TotalWeight(entries) ==
    IF entries = <<>> THEN 0
    ELSE entries[1].weight + TotalWeight(SubSeq(entries, 2, Len(entries)))

IsLegal(p, move) == \E k \in 1..Len(LegalMoves(p)) : LegalMoves(p)[k] = move

RECURSIVE SelectWalk_Inclusive(_, _, _, _)
\* the walk, were it to stop as soon as the running sum reaches the draw
SelectWalk_Inclusive(entries, k, current_weight, random_weight) ==
    IF k > Len(entries) THEN 0
    ELSE LET sum == current_weight + entries[k].weight
         IN  IF random_weight <= sum THEN k
             ELSE SelectWalk_Inclusive(entries, k + 1, sum, random_weight)

RECURSIVE SelectWalk(_, _, _, _)
\* the loop of lines 125-145 from entry k on: the index of the entry at which
\* it stops, 0 if it runs off the end
SelectWalk(entries, k, current_weight, random_weight) ==
    IF k > Len(entries) THEN 0
    ELSE LET sum == current_weight + entries[k].weight
         IN  IF random_weight < sum THEN k
             ELSE SelectWalk(entries, k + 1, sum, random_weight)

\* selectMove, were it to return the move of the entry without looking it up
\* among the legal moves
selectMove_Unverified(entries, p, random_weight) ==
    IF entries = <<>> \/ TotalWeight(entries) = 0 THEN NO_MOVE
    ELSE LET k == SelectWalk(entries, 1, 0, random_weight)
         IN  IF k = 0 THEN NO_MOVE ELSE polyGlotMoveToMove(entries[k].move, p)

\* selectMove with random_weight the number the generator drew
selectMove(entries, p, random_weight) ==
    IF entries = <<>> \/ TotalWeight(entries) = 0 THEN NO_MOVE
    ELSE LET k == SelectWalk(entries, 1, 0, random_weight)
             move == IF k = 0 THEN NO_MOVE ELSE polyGlotMoveToMove(entries[k].move, p)
         IN  IF IsLegal(p, move) THEN move ELSE NO_MOVE

\* the moves getMove can return, over the numbers the generator can draw
getMove(b, p) ==
    IF ~b.loaded THEN {NO_MOVE}
    ELSE LET book_entries == findEntries(b, getPolyGlotKey(p))
         IN  IF book_entries = <<>> \/ TotalWeight(book_entries) = 0 THEN {NO_MOVE}
             ELSE {selectMove(book_entries, p, r) : r \in 0..(TotalWeight(book_entries) - 1)}

(***************************************************************************)
(* Bounds of the engine runs.                                              *)
(***************************************************************************)
\* go commands (threads) in a run
MaxGo == 2
\* UCI commands in a run
MaxCmds == 2
\* of which commands other than stop read while a search is running
MaxRace == 1
\* the clock advances TickMs at a time, up to MaxTime
TickMs == 50
MaxTime == 50
\* iterations of the driver the model follows; a deeper one never completes
MaxIter == 2

Threads == 1..MaxGo

\* the arguments a go command can give ChessEngine::search
\* (go infinite, go depth 2 movetime 50)
GoArgs ==
    { [NoArgs EXCEPT !.infinite = TRUE],
      [NoArgs EXCEPT !.depth = 2, !.movetime = 50] }

\* position commands: a position of the graph and the moves to play from it;
\* the move from h8 to a1 is legal nowhere
PositionCmds ==
    { [fen |-> STARTPOS, moves |-> <<>>],
      [fen |-> STARTPOS, moves |-> <<Ra1a2, MakeMoveCode(NORMAL, 63, 0)>>] }

HashSizes == {1}

Shared == [info |-> info, tt |-> tt, srch |-> srch]

Running(t) == th[t].pc \notin {"idle", "done"}

Quiet == \A t \in Threads : ~Running(t)

ShouldStop == should_stop(info, now)

(***************************************************************************)
(* ChessEngine::search (engine.cpp), as the steps of thread t.             *)
(***************************************************************************)
\* lines 103-114.  The thread reads depth, movetime, ... through references
\* to the locals of a handleGo that has returned: it can read any values.
SearchCall(t) ==
    /\ th[t].pc = "start"
    /\ \E a \in GoArgs, book_move \in getMove(book, board) :
          th' = [th EXCEPT ![t] =
                    IF book_move # NO_MOVE
                    THEN [@ EXCEPT !.out = book_move, !.bybook = TRUE, !.pc = "return"]
                    ELSE [@ EXCEPT !.args = a, !.age0 = tt.age, !.pc = "setup"]]
    /\ UNCHANGED <<game, now, board, tt, info, searching, srch, book, call>>

\* lines 116-137
SearchSetup(t) ==
    LET a == th[t].args
        white == game[board].stm = WHITE
        our_time == IF white THEN a.wtime ELSE a.btime
        our_inc == IF white THEN a.winc ELSE a.binc
        time_to_use == our_time \div 30 + our_inc \div 2
        i1 == reset(info, now)
    IN  /\ th[t].pc = "setup"
        /\ info' = IF a.movetime > 0 THEN [i1 EXCEPT !.time_limit = a.movetime]
                   ELSE IF ~a.infinite /\ (a.wtime > 0 \/ a.btime > 0)
                        THEN [i1 EXCEPT !.time_limit = Max(100, time_to_use)]
                   ELSE i1
        /\ searching' = TRUE
        /\ th' = [th EXCEPT ![t].best_move = NO_MOVE,
                            ![t].max_depth = IF a.depth > 0 THEN a.depth ELSE MAX_DEPTH,
                            ![t].d = 1, ![t].pc = "loop"]
        /\ UNCHANGED <<game, now, board, tt, srch, book, call>>

\* line 139 and the entry of searchRoot.  Past MaxIter iterations the next
\* iteration is one that does not complete: the thread stays in it until
\* should_stop() answers true.
DriverLoop(t) ==
    LET w == th[t]
        r == RootEnter(Polled(w, FALSE), Shared, board)
    IN  /\ w.pc = "loop"
        /\ w.d <= Min(w.max_depth, MaxIter) \/ w.d > w.max_depth \/ ShouldStop
        /\ th' = [th EXCEPT ![t] =
                    IF w.d > w.max_depth THEN [w EXCEPT !.pc = "finish"]
                    ELSE IF ShouldStop THEN [Polled(w, TRUE) EXCEPT !.pc = "finish"]
                    ELSE r.w]
        /\ UNCHANGED <<game, now, board, tt, info, searching, srch, book, call>>

\* a step of searchRoot, search or quiescence
SearchStep(t) ==
    LET w == th[t]
        r == CASE w.pc = "rootLoop" -> RootLoop(w, Shared, ShouldStop)
               [] w.pc = "rootRet" -> RootReturn(w, Shared, ShouldStop, board)
               [] w.pc = "search" -> InnerStep(w, Shared, ShouldStop)
    IN  /\ w.pc \in {"rootLoop", "rootRet", "search"}
        /\ th' = [th EXCEPT ![t] = r.w]
        /\ info' = r.sh.info
        /\ tt' = r.sh.tt
        /\ srch' = r.sh.srch
        /\ UNCHANGED <<game, now, board, searching, book, call>>

Commit_Always(w, stop) == [w EXCEPT !.best_move = w.result.best_move]

\* lines 143-146: the driver keeps the result of the iteration
Commit(w, stop) == IF stop THEN w ELSE [w EXCEPT !.best_move = w.result.best_move]

\* lines 143-193
DriverCheck(t) ==
    LET w == th[t]
        stop == ShouldStop
        w1 == Polled(w, stop)
        w2 == [Commit(w1, stop) EXCEPT
                  !.good = IF stop \/ w.aborted THEN @ ELSE w.result.best_move]
        abs_score == IF w.result.score < 0 THEN -w.result.score ELSE w.result.score
    IN  /\ w.pc = "check"
        /\ info' = IF stop THEN info ELSE [info EXCEPT !.depth = w.d]
        /\ th' = [th EXCEPT ![t] =
                    IF abs_score > MATE_IN_MAX_PLY
                    THEN [w2 EXCEPT !.result = NoResult, !.pc = "finish"]
                    ELSE [w2 EXCEPT !.result = NoResult, !.d = @ + 1, !.pc = "loop"]]
        /\ UNCHANGED <<game, now, board, tt, searching, srch, book, call>>

\* lines 196-197
DriverFinish(t) ==
    /\ th[t].pc = "finish"
    /\ searching' = FALSE
    /\ th' = [th EXCEPT ![t].out = th[t].best_move, ![t].pc = "return"]
    /\ UNCHANGED <<game, now, board, tt, info, srch, book, call>>

\* search has returned `out': the thread prints its bestmove line and ends
\* (uci.cpp, the lambda of handleGo)
ThreadEnd(t) ==
    /\ th[t].pc = "return"
    /\ th' = [th EXCEPT ![t] = [IdleThread EXCEPT !.pc = "done"]]
    /\ UNCHANGED <<game, now, board, tt, info, searching, srch, book, call>>

(***************************************************************************)
(* The other operations of ChessEngine (engine.cpp).                       *)
(***************************************************************************)
\* the text of a move, from + to + promotion letter: the move without its type
MoveString(m) == m % 16384

RECURSIVE ApplyMoves(_, _)
\* lines 50-100: play the moves, stopping at the first that is not legal
ApplyMoves(p, moves) ==
    IF moves = <<>> THEN p
    ELSE LET found == {k \in 1..Len(LegalMoves(p)) : MoveString(LegalMoves(p)[k]) = moves[1]}
         IN  IF found = {} THEN p
             ELSE LET k == CHOOSE k \in found : \A j \in found : k <= j
                  IN  ApplyMoves(PosAfter(p, LegalMoves(p)[k]), SubSeq(moves, 2, Len(moves)))

\* setPosition: board_.setFen, then the moves
setPosition(fen, moves) == ApplyMoves(fen, moves)

\* the front-end reads a UCI command, while fewer than MaxCmds have been
\* read; call.r counts the commands other than stop that were read while a
\* search was running, of which a run has at most MaxRace
Command(op, a) ==
    LET race == ~Quiet /\ op # "stop"
    IN  /\ call.n < MaxCmds
        /\ race => call.r < MaxRace
        /\ call' = [op |-> op, n |-> call.n + 1, a |-> a,
                    r |-> IF race THEN call.r + 1 ELSE call.r]

\* handleUCINewGame: ChessEngine::newGame
UciNewGame ==
    /\ Command("ucinewgame", <<>>)
    /\ board' = STARTPOS
    /\ tt' = clear(tt)
    /\ info' = reset(info, now)
    /\ UNCHANGED <<game, now, searching, srch, book, th>>

\* handlePosition: ChessEngine::setPosition
UciPosition ==
    \E c \in PositionCmds :
       /\ Command("position", c)
       /\ board' = setPosition(c.fen, c.moves)
       /\ UNCHANGED <<game, now, tt, info, searching, srch, book, th>>

\* handleGo: a detached thread that will call ChessEngine::search
UciGo ==
    \E t \in Threads :
       /\ th[t].pc = "idle"
       /\ \A u \in Threads : u < t => th[u].pc # "idle"
       /\ Command("go", t)
       /\ th' = [th EXCEPT ![t] = [IdleThread EXCEPT !.pc = "start"]]
       /\ UNCHANGED <<game, now, board, tt, info, searching, srch, book>>

\* handleStop: ChessEngine::stopSearch; search_thread_ is never assigned, so
\* it is not joinable and nothing is waited for.  stopped is a plain bool
\* written here and read by the search threads: a thread that reads the old
\* value behaves as if the stop had been executed after its poll, which the
\* interleaving of this action with the polls already covers.
UciStop ==
    /\ Command("stop", <<>>)
    /\ info' = [info EXCEPT !.stopped = TRUE]
    /\ searching' = FALSE
    /\ th' = [t \in Threads |-> IF Running(t) THEN [th[t] EXCEPT !.stopreq = TRUE] ELSE th[t]]
    /\ UNCHANGED <<game, now, board, tt, srch, book>>

\* handleSetOption, name Hash: ChessEngine::setHashSize
UciSetHash ==
    \E mb \in HashSizes :
       /\ Command("setoption Hash", mb)
       /\ tt' = NewTable(mb)
       /\ UNCHANGED <<game, now, board, info, searching, srch, book, th>>

\* handleSetOption, name BookPath: ChessEngine::setBookPath
UciSetBookPath ==
    \E file \in BookFiles :
       /\ Command("setoption BookPath", file)
       /\ book' = loadFromFile(book, file)
       /\ UNCHANGED <<game, now, board, tt, info, searching, srch, th>>

\* the steady clock advances
Tick ==
    /\ now + TickMs <= MaxTime
    /\ now' = now + TickMs
    /\ UNCHANGED <<game, board, tt, info, searching, srch, book, th, call>>

(***************************************************************************)
(* The state after the constructors (ChessEngine::ChessEngine,             *)
(* initializeComponents, Search::Search).                                  *)
(***************************************************************************)
Init ==
    /\ game = Game
    /\ now = 0
    /\ board = STARTPOS
    /\ tt = NewTable(DEFAULT_HASH_SIZE_MB)
    /\ info = InitInfo
    /\ searching = FALSE
    /\ srch = clearHistory(<<>>)
    /\ book = InitBook
    /\ th = [t \in Threads |-> IdleThread]
    /\ call = [op |-> "init", n |-> 0, a |-> <<>>, r |-> 0]

ThreadStep ==
    \E t \in Threads :
       \/ SearchCall(t)
       \/ SearchSetup(t)
       \/ DriverLoop(t)
       \/ SearchStep(t)
       \/ DriverCheck(t)
       \/ DriverFinish(t)
       \/ ThreadEnd(t)

\* the front-end as it is: it reads and executes commands whatever the
\* threads it started are doing
Next ==
    \/ UciNewGame
    \/ UciPosition
    \/ UciGo
    \/ UciStop
    \/ UciSetHash
    \/ UciSetBookPath
    \/ ThreadStep
    \/ Tick

Spec == Init /\ [][Next]_vars

\* a GUI that follows the protocol: while a search is running it sends
\* nothing but stop
NextSeq ==
    \/ Quiet /\ UciNewGame
    \/ Quiet /\ UciPosition
    \/ Quiet /\ UciGo
    \/ UciStop
    \/ Quiet /\ UciSetHash
    \/ Quiet /\ UciSetBookPath
    \/ ThreadStep
    \/ Tick

SpecSeq == Init /\ [][NextSeq]_vars

(***************************************************************************)
(* The TranspositionTable on its own: any sequence of at most MaxCalls     *)
(* calls of store, newSearch and clear.  `call' keeps the arguments of the *)
(* last call, and for a store the entry its slot held before.              *)
(***************************************************************************)
\* hashes 11 and 11 + 2^21 share a slot, depth 258 does not fit in uint8_t
\* and score 40000 does not fit in int16_t
StoreHashes == {11, 11 + 2097152}
StoreDepths == {1, 3, 258}
StoreScores == {-5, 40000}
StoreFlags == {TT_EXACT, TT_UPPER}
StoreMoves == {Ra1a2, Nb1c3}

TTStore ==
    \E hash \in StoreHashes, depth \in StoreDepths, score \in StoreScores,
       flag \in StoreFlags, move \in StoreMoves :
       /\ call.n < MaxCalls
       /\ tt' = store(tt, hash, depth, score, flag, move, 0)
       /\ call' = [op |-> "store", n |-> call.n + 1, r |-> 0,
                   a |-> [hash |-> hash, depth |-> depth, score |-> score, flag |-> flag,
                          move |-> move, before |-> EntryAt(tt, getIndex(tt, hash))]]
       /\ UNCHANGED <<game, now, board, info, searching, srch, book, th>>

TTNewSearch ==
    /\ call.n < MaxCalls
    /\ tt.age < MaxAge
    /\ tt' = newSearch(tt)
    /\ call' = [op |-> "newSearch", n |-> call.n + 1, r |-> 0, a |-> <<>>]
    /\ UNCHANGED <<game, now, board, info, searching, srch, book, th>>

TTClear ==
    /\ call.n < MaxCalls
    /\ tt' = clear(tt)
    /\ call' = [op |-> "clear", n |-> call.n + 1, r |-> 0, a |-> <<>>]
    /\ UNCHANGED <<game, now, board, info, searching, srch, book, th>>

NextTT == TTStore \/ TTNewSearch \/ TTClear

SpecTT == Init /\ [][NextTT]_vars

\* the slot the last store addressed, after the store
SlotOfCall == EntryAt(tt, getIndex(tt, call.a.hash))

StoreAccepted ==
    ~(/\ call.a.before.hash = call.a.hash
      /\ call.a.before.age = tt.age
      /\ call.a.before.depth > call.a.depth)

\* d fits in uint8_t and s in int16_t
StoreFits == call.a.depth \in 0..255 /\ call.a.score \in -32768..32767

InSearch(t) == th[t].pc \in {"loop", "rootLoop", "rootRet", "search", "check", "finish"}

\* search is returning, and not from the opening book
Returning(t) == th[t].pc = "return" /\ ~th[t].bybook

\* the request names no deadline
NoDeadline(a) == a.movetime = 0 /\ (a.infinite \/ (a.wtime = 0 /\ a.btime = 0))

\* C1: whenever the stop flag is set and whenever the deadline passes during
\* a request, the move the iterative deepening returns is the best move of
\* the last iteration that ran without should_stop() answering true and was
\* followed by a driver check that answered false, or NO_MOVE if there is none
C1_ReturnsLastCompleted ==
    \A t \in Threads : Returning(t) => th[t].out = th[t].good

\* a request that completed an iteration and was stopped in the next one
C1_Witness ==
    \E t \in Threads :
       /\ Returning(t) /\ th[t].aborted /\ th[t].d = 2
       /\ th[t].good # NO_MOVE /\ th[t].out = th[t].good

\* C2 as claimed: during a request that names no deadline, should_stop() is
\* true only if the stop flag is set
C2_NoDeadline ==
    \A t \in Threads :
       (InSearch(t) /\ NoDeadline(th[t].args)) => (ShouldStop => info.stopped)

\* C3 as claimed: after stopSearch() was called for a request, no
\* should_stop() of that request answers false
C3_StopObserved == \A t \in Threads : ~th[t].missed

\* C4 as claimed: within a request, no should_stop() answers false after one
\* has answered true
C4_StopStaysSet == \A t \in Threads : ~th[t].flip

\* C5 as claimed: at most one search runs at a time, and the front-end
\* executes no newGame, setPosition, go, setHashSize or setBookPath while a
\* search is running
C5_OneAccessor ==
    /\ Cardinality({t \in Threads : Running(t)}) <= 1
    /\ call.r = 0

\* C6 as claimed: a request with a positive movetime on a position that has
\* legal moves, if no stop was asked, returns a legal move of the position
C6_AlwaysALegalMove ==
    \A t \in Threads :
       (/\ Returning(t) /\ th[t].args.movetime > 0 /\ ~info.stopped
        /\ LegalMoves(board) # <<>>)
       => IsLegal(board, th[t].out)

\* C6, amended: a request with a positive movetime on a position that has
\* legal moves returns a legal move of the position if it completed an
\* iteration before should_stop() answered true, and NO_MOVE if it did not
C6_LegalMoveIffDepthOne ==
    \A t \in Threads :
       (Returning(t) /\ th[t].args.movetime > 0 /\ LegalMoves(board) # <<>>)
       => IF info.depth >= 1 THEN IsLegal(board, th[t].out) ELSE th[t].out = NO_MOVE

\* a timed request that completed depth 1, met its deadline in depth 2 and
\* returns a legal move
C6_Witness ==
    \E t \in Threads :
       /\ Returning(t) /\ th[t].args.movetime > 0 /\ ~info.stopped
       /\ th[t].sawstop /\ info.depth = 1 /\ IsLegal(board, th[t].out)

\* C7 as claimed: after newGame the table is empty with age 0, and every
\* history counter and every killer slot is 0
C7_NewGameClearsAll ==
    call.op = "ucinewgame" =>
        /\ tt.table = <<>> /\ tt.age = 0
        /\ \A c \in DOMAIN srch.hist : srch.hist[c] = 0
        /\ \A q \in DOMAIN srch.killers : srch.killers[q] = <<0, 0>>

\* C8 as claimed: during a search that the book did not answer, the age of
\* the table is one more (mod 256) than when search was called
C8_AgeIncremented ==
    \A t \in Threads : InSearch(t) => tt.age = (th[t].age0 + 1) % 256

(***************************************************************************)
(* ChessEngine::setHashSize on its own: any sequence of at most            *)
(* MaxHashCalls calls of setHashSize and of probe on the table it leaves.  *)
(***************************************************************************)
MaxHashCalls == 4

\* the values of "setoption name Hash value ..."; handleSetOption passes the
\* number it read to setHashSize as it is
HashMbs == {-1, 0, 1, 2}

ProbeHashes == {0, 5, 32768, 40000, 70000, 11 + 2097152}

\* TranspositionTable::TranspositionTable for size_mb < 0: static_cast<size_t>
\* wraps, size_bytes is 2^64 - |size_mb| * 2^20, table_size_ becomes 2^59 and
\* make_unique<TTEntry[]> of 2^59 entries throws std::bad_alloc
AllocThrows(size_mb) == size_mb < 0

\* setHashSize(mb).  Nothing catches the exception (uci.cpp, main): the
\* process terminates, which ends the run.
HashSet ==
    \E mb \in HashMbs :
       /\ call.n < MaxHashCalls /\ call.op # "terminate"
       /\ tt' = IF AllocThrows(mb) THEN tt ELSE NewTable(mb)
       /\ call' = [op |-> IF AllocThrows(mb) THEN "terminate" ELSE "setHashSize",
                   n |-> call.n + 1, a |-> mb, r |-> 0]
       /\ UNCHANGED <<game, now, board, info, searching, srch, book, th>>

\* probe(hash) on the table; a slot outside the table is memory that is not
\* the table's, and what the comparison with hash finds there is not known
HashProbe ==
    \E hash \in ProbeHashes, outside \in BOOLEAN :
       LET index == getIndex(tt, hash)
       IN  /\ call.n < MaxHashCalls /\ call.op # "terminate"
           /\ call' = [op |-> "probe", n |-> call.n + 1, r |-> 0,
                       a |-> [hash |-> hash, index |-> index,
                              found |-> IF index < tt.size THEN probe(tt, hash).found
                                                           ELSE outside]]
           /\ UNCHANGED <<game, now, board, tt, info, searching, srch, book, th>>

NextHash == HashSet \/ HashProbe

SpecHash == Init /\ [][NextHash]_vars

\* C11 as claimed: whatever number setHashSize is given, the engine goes on
\* with a table whose capacity is a power of two and at least 1, and every
\* probe indexes inside the table
C11_HashSizeClamped ==
    /\ call.op # "terminate"
    /\ tt.size >= 1 /\ PowerAbove(1, tt.size) = 2 * tt.size
    /\ call.op = "probe" => call.a.index < tt.size

(***************************************************************************)
(* Search::searchRoot on its own: a caller that sets up a position, resets *)
(* the SearchInfo and calls searchRoot(board, depth, info), as             *)
(* ChessEngine::search does for each depth, at most MaxRootCalls times on  *)
(* the same Search object and table.  During a call another thread can set *)
(* info.stopped, as stopSearch() does, at most MaxRootStops times in a run *)
(* (call.r counts them).                                                   *)
(***************************************************************************)
MaxRootCalls == 2
MaxRootStops == 1

RootPositions == {6, 7, 12, 15, 18, 21, 27, 36, 47, 52}
\* the rook endings are searched deep enough for a null move to be tried
RootDepths(p) == IF p \in {21, 27} THEN {6, 7} ELSE IF p = 36 THEN {5} ELSE IF p = 47 THEN {4} ELSE IF p = 52 THEN {1} ELSE {2, 3}

RootCall ==
    \E p \in RootPositions : \E depth \in RootDepths(p) :
       LET i1 == reset(info, now)
           r == RootEnter([IdleThread EXCEPT !.d = depth], [Shared EXCEPT !.info = i1], p)
       IN  /\ th[1].pc = "idle"
           /\ call.n < MaxRootCalls
           /\ board' = p
           /\ info' = i1
           /\ th' = [th EXCEPT ![1] = r.w]
           /\ call' = [op |-> "searchRoot", n |-> call.n + 1, r |-> call.r,
                       a |-> [pos |-> p, depth |-> depth, empty |-> tt.table = <<>>]]
           /\ UNCHANGED <<game, now, tt, searching, srch, book>>

\* searchRoot has returned its SearchResult (th[1].result) to the caller
RootDone ==
    /\ call.op = "searchRoot"
    /\ th[1].pc = "check"
    /\ th' = [th EXCEPT ![1] = IdleThread]
    /\ UNCHANGED <<game, now, board, tt, info, searching, srch, book, call>>

\* stopSearch() while searchRoot is running
RootStop ==
    /\ call.op = "searchRoot"
    /\ th[1].pc \in {"rootLoop", "rootRet", "search"}
    /\ ~info.stopped
    /\ call.r < MaxRootStops
    /\ info' = [info EXCEPT !.stopped = TRUE]
    /\ call' = [call EXCEPT !.r = @ + 1]
    /\ UNCHANGED <<game, now, board, tt, searching, srch, book, th>>

NextRoot == RootCall \/ SearchStep(1) \/ RootDone \/ RootStop

SpecRoot == Init /\ [][NextRoot]_vars

\* C12 as claimed: every value Search::search returns is between
\* -MATE_VALUE and MATE_VALUE, whatever earlier searches, stopped or not,
\* left in the table
C12_ScoreBounds ==
    \A t \in Threads :
       th[t].rc.search => (th[t].ret >= -MATE_VALUE /\ th[t].ret <= MATE_VALUE)

\* the position has no legal move and the side to move is in check
Checkmated(p) == game[p].check /\ LegalMoves(p) = <<>>

\* the legal moves of p that deliver checkmate
MateMoves(p) ==
    {LegalMoves(p)[k] : k \in {j \in 1..Len(LegalMoves(p)) : Checkmated(game[p].moves[j].to)}}

\* searchRoot has returned from a call that no stop was asked of
RootReturned == call.op = "searchRoot" /\ th[1].pc = "check" /\ ~info.stopped

\* C13 as claimed: searchRoot at depth 3 or more, on an empty table and not
\* stopped, on a position in which some legal move checkmates, returns the
\* score MATE_VALUE - 1 and a best move that checkmates
C13_FindsMateInOne ==
    (/\ RootReturned /\ call.a.depth >= 3 /\ call.a.empty
     /\ MateMoves(call.a.pos) # {})
    => /\ th[1].result.score = MATE_VALUE - 1
       /\ th[1].result.best_move \in MateMoves(call.a.pos)

\* the window that mateDistancePruning leaves of (alpha, beta) at this ply
\* is not empty
WindowLeft(alpha, beta, ply) ==
    Max(alpha, -MATE_VALUE + ply) < Min(beta, MATE_VALUE - ply - 1)

\* Search::search has returned from a call below the root, made while no
\* stop was asked, on a position that is a repetition or a 50-move draw
DrawReturned(t) ==
    /\ th[t].rc.search /\ th[t].rc.kind = "search" /\ th[t].rc.ply > 0
    /\ game[th[t].rc.pos].draw /\ ~info.stopped

\* C14 as claimed: search below the root, not stopped, on a position that
\* is a repetition or has a halfmove clock of 100 or more, returns 0
\* whatever its window
C14_DrawReturnsZero ==
    \A t \in Threads : DrawReturned(t) => th[t].ret = 0

\* C14, amended: search below the root, not stopped, on a position that is
\* a repetition or has a halfmove clock of 100 or more, returns 0 for every
\* window that mate distance pruning does not empty, that is when
\* max(alpha, -MATE_VALUE + ply) < min(beta, MATE_VALUE - ply - 1)
C14_DrawReturnsZeroInWindow ==
    \A t \in Threads :
       (DrawReturned(t) /\ WindowLeft(th[t].rc.alpha, th[t].rc.beta, th[t].rc.ply))
       => th[t].ret = 0

\* a drawn position that is also checkmate, searched with a zero window
\* that mate distance pruning leaves alone, has returned 0
C14_Witness ==
    \E t \in Threads :
       /\ DrawReturned(t) /\ WindowLeft(th[t].rc.alpha, th[t].rc.beta, th[t].rc.ply)
       /\ th[t].rc.beta - th[t].rc.alpha = 1 /\ Checkmated(th[t].rc.pos)
       /\ th[t].ret = 0

\* every move of the line is legal in the position the moves before it lead
\* to from p
RECURSIVE LegalLine(_, _)
LegalLine(p, line) ==
    \/ line = <<>>
    \/ /\ IsLegal(p, line[1])
       /\ LegalLine(PosAfter(p, line[1]), Tail(line))

\* C15 as claimed: the PV of every result of searchRoot that was not aborted
\* has at most MAX_DEPTH moves, starts with result.best_move when there is
\* one, and is a line of legal moves from the root position
C15_PvIsLegalLine ==
    RootReturned =>
       LET r == th[1].result
       IN  /\ Len(r.pv) <= MAX_DEPTH
           /\ r.best_move # NO_MOVE => (r.pv # <<>> /\ r.pv[1] = r.best_move)
           /\ r.best_move = NO_MOVE => r.pv = <<>>
           /\ LegalLine(call.a.pos, r.pv)

(***************************************************************************)
(* Move ordering on its own: beta cutoffs by quiet moves, each of which    *)
(* calls updateHistory and then updateKillers (part_002 279-283), and      *)
(* orderMoves on a position.  The depth of a cutoff is the depth of the    *)
(* node that cut off, which is below the depth of the iteration; "go depth *)
(* N" runs the iterations up to N whatever N is (uci.cpp 131-134,          *)
(* engine.cpp 137-139), so the depths drawn here go past MAX_DEPTH.        *)
(***************************************************************************)
MaxOrderCalls == 4

OrderPositions == {35}
OrderDepths == {3, MAX_DEPTH, 150, 1500}
OrderPlies == {1, 3}

\* the moves of p that are not captures
QuietMoves(p) == {LegalMoves(p)[k] : k \in {j \in 1..Len(LegalMoves(p)) : ~isCapture(p, LegalMoves(p)[j])}}

\* a quiet move of p fails high in a node of this depth and ply
OrderCutoff ==
    \E p \in OrderPositions, depth \in OrderDepths, ply \in OrderPlies :
       \E move \in QuietMoves(p) :
          /\ call.n < MaxOrderCalls
          /\ srch' = [srch EXCEPT !.hist = updateHistory(@, move, game[p].stm, depth),
                                  !.killers = updateKillers(@, move, ply)]
          /\ call' = [op |-> "cutoff", n |-> call.n + 1, r |-> 0,
                      a |-> [pos |-> p, move |-> move, depth |-> depth, ply |-> ply]]
          /\ UNCHANGED <<game, now, board, tt, info, searching, book, th>>

\* orderMoves(moves, board, hash_move, ply) on the legal moves of a position;
\* the call record keeps the ordered list and the score of every move
OrderMoves ==
    \E p \in OrderPositions, ply \in OrderPlies :
       \E hash_move \in {NO_MOVE} \cup {LegalMoves(p)[k] : k \in 1..Len(LegalMoves(p))} :
          /\ call.n < MaxOrderCalls
          /\ call' = [op |-> "orderMoves", n |-> call.n + 1, r |-> 0,
                      a |-> [pos |-> p, hash_move |-> hash_move, ply |-> ply,
                             moves |-> orderMoves(srch, LegalMoves(p), p, hash_move, ply),
                             score |-> [m \in {LegalMoves(p)[k] : k \in 1..Len(LegalMoves(p))} |->
                                          getMoveScore(srch, m, p, hash_move, ply)]]]
          /\ UNCHANGED <<game, now, board, tt, info, searching, srch, book, th>>

NextOrder == OrderCutoff \/ OrderMoves

SpecOrder == Init /\ [][NextOrder]_vars

\* C16 as claimed: after orderMoves on a list that contains the hash move,
\* the hash move is the first move of the list, whatever the other moves
\* score
C16_HashMoveFirst ==
    (call.op = "orderMoves" /\ call.a.hash_move # NO_MOVE)
    => call.a.moves[1] = call.a.hash_move

\* C17 as claimed: in one position and ply, every capture that is not the
\* hash move (ordinary, promoting or en passant) scores strictly more than
\* every non-capture that is not the hash move, be it a killer or scored
\* by history
C17_CapturesAboveQuiets ==
    call.op = "orderMoves" =>
       \A c \in DOMAIN call.a.score, q \in QuietMoves(call.a.pos) :
          (isCapture(call.a.pos, c) /\ c # call.a.hash_move /\ q # call.a.hash_move)
          => call.a.score[c] > call.a.score[q]

(***************************************************************************)
(* The opening book on its own: loads, as setBookPath makes them, and      *)
(* getMove, as ChessEngine::search calls it when the book is loaded.  The  *)
(* call record of getMove keeps the file of the most recent load, the run  *)
(* of entries that match the key, the number drawn and the entry the walk  *)
(* stopped at.                                                             *)
(***************************************************************************)
MaxBookCalls == 4

LoadFiles == BookFiles \cup {"bookB", "bookC", "bookZ"}
BookPositions == {0, 1, 4}

\* the file of the most recent load, "none" before the first
LastFile == IF call.op \in {"loadFromFile", "getMove"} THEN call.a.file ELSE "none"

\* ChessEngine::setBookPath(path): book_->loadFromFile(path)
BookLoad ==
    \E file \in LoadFiles :
       /\ call.n < MaxBookCalls
       /\ book' = loadFromFile(book, file)
       /\ call' = [op |-> "loadFromFile", n |-> call.n + 1, r |-> 0, a |-> [file |-> file]]
       /\ UNCHANGED <<game, now, board, tt, info, searching, srch, th>>

\* the book lookup of ChessEngine::search (engine.cpp 107-113)
BookGetMove ==
    \E p \in BookPositions :
       LET entries == IF book.loaded THEN findEntries(book, getPolyGlotKey(p)) ELSE <<>>
           total == TotalWeight(entries)
       IN  \E random_weight \in 0..Max(total - 1, 0) :
              /\ call.n < MaxBookCalls
              /\ call' = [op |-> "getMove", n |-> call.n + 1, r |-> 0,
                          a |-> [file |-> LastFile, pos |-> p, entries |-> entries,
                                 random_weight |-> random_weight,
                                 index |-> IF total = 0 THEN 0
                                           ELSE SelectWalk(entries, 1, 0, random_weight),
                                 move |-> selectMove(entries, p, random_weight)]]
              /\ UNCHANGED <<game, now, board, tt, info, searching, srch, book, th>>

NextBook == BookLoad \/ BookGetMove

SpecBook == Init /\ [][NextBook]_vars

\* C18: whatever the book holds, getMove returns NO_MOVE or a move of the
\* legal-move list of the position
C18_BookMoveLegal ==
    call.op = "getMove" => (call.a.move = NO_MOVE \/ IsLegal(call.a.pos, call.a.move))

\* getMove has returned a move from a run of entries that also holds a move
\* that is not legal in the position
C18_Witness ==
    /\ call.op = "getMove" /\ call.a.move # NO_MOVE
    /\ \E k \in 1..Len(call.a.entries) :
          ~IsLegal(call.a.pos, polyGlotMoveToMove(call.a.entries[k].move, call.a.pos))

\* the sum of the weights of the first k entries
Cumulative(entries, k) == TotalWeight(SubSeq(entries, 1, k))

\* C19: over the run of entries that match the key, in the order they are
\* stored: if the total weight is 0 nothing is selected and NO_MOVE is
\* returned; otherwise, for the number r drawn, the entry selected is the
\* first whose cumulative weight exceeds r, it has a weight above 0, and it
\* is the only entry when there is only one
C19_WeightedSelection ==
    call.op = "getMove" =>
       LET entries == call.a.entries
           r == call.a.random_weight
           k == call.a.index
       IN  IF TotalWeight(entries) = 0
           THEN k = 0 /\ call.a.move = NO_MOVE
           ELSE /\ k \in 1..Len(entries)
                /\ r < Cumulative(entries, k)
                /\ \A j \in 1..(k - 1) : r >= Cumulative(entries, j)
                /\ entries[k].weight > 0
                /\ Len(entries) = 1 => k = 1
                /\ call.a.move \in {NO_MOVE, polyGlotMoveToMove(entries[k].move, call.a.pos)}

\* the draw 0 has selected the second entry of a run that starts with an
\* entry of weight 0
C19_Witness ==
    /\ call.op = "getMove" /\ Len(call.a.entries) >= 2
    /\ call.a.entries[1].weight = 0
    /\ call.a.random_weight = 0 /\ call.a.index = 2
    /\ call.a.move = polyGlotMoveToMove(call.a.entries[2].move, call.a.pos)

\* C20 as claimed: when the most recent load failed (the file could not be
\* opened or held no record), isLoaded() is false and the book lookup of
\* ChessEngine::search gives no move, whatever was loaded before
C20_FailedLoadUnloads ==
    (call.op \in {"loadFromFile", "getMove"} /\ FileEntries(call.a.file) = <<>>)
    => /\ ~book.loaded
       /\ call.op = "getMove" => call.a.move = NO_MOVE

(***************************************************************************)
(* Claims about ChessEngine::setPosition.                                  *)
(***************************************************************************)
RECURSIVE AllMatch(_, _)
\* every string of the list matches a legal move of the position it is
\* played in
AllMatch(p, moves) ==
    IF moves = <<>> THEN TRUE
    ELSE LET found == {k \in 1..Len(LegalMoves(p)) : MoveString(LegalMoves(p)[k]) = moves[1]}
         IN  /\ found # {}
             /\ AllMatch(PosAfter(p, LegalMoves(p)[CHOOSE k \in found : \A j \in found : k <= j]),
                         SubSeq(moves, 2, Len(moves)))

\* C21: a position command whose move list holds a string that matches no
\* legal move leaves the engine's board as it was before the command:
\* neither the new FEN nor the legal prefix of the list is applied
C21_InvalidMoveKeepsBoard ==
    [][(/\ call'.n = call.n + 1
        /\ call'.op = "position"
        /\ ~AllMatch(call'.a.fen, call'.a.moves)) => board' = board]_vars

(***************************************************************************)
(* Evaluation (evaluation.cpp).  A position is a record [at, stm]: at maps *)
(* the occupied squares to [pt, color].  SpecEval calls evaluate on boards *)
(* made of the two kings and any subset of EvalPieces.                     *)
(***************************************************************************)
MaxEvalCalls == 2

TOTAL_PHASE == 24
PIECE_VALUES == <<100, 320, 330, 500, 900, 20000>>
PHASE_VALUES == <<0, 1, 1, 2, 4, 0>>

\* the piece-square tables: evaluation.h is not among the sources, so the
\* twelve tables are stood in for by one formula with different values for
\* every piece, phase and square index
PST(piece, is_endgame, sq_index) ==
    (((piece + 2) * (sq_index + 1) + (IF is_endgame THEN 5 ELSE 0)) % 41) - 20

Squares == 0..63
FileOf(sq) == sq % 8
RankOf(sq) == sq \div 8
Abs(x) == IF x < 0 THEN -x ELSE x
\* C++ integer division, which truncates toward zero
TruncDiv(x, y) == IF x >= 0 THEN x \div y ELSE -((-x) \div y)

RECURSIVE SumOver(_, _)
\* the sum of f[s] for s in S
SumOver(S, f) ==
    IF S = {} THEN 0
    ELSE LET s == CHOOSE s \in S : TRUE IN f[s] + SumOver(S \ {s}, f)

\* board.pieces(piece_type, color), board.us(color), board.occ()
Pieces(b, pt, color) == {s \in DOMAIN b.at : b.at[s].pt = pt /\ b.at[s].color = color}
Us(b, color) == {s \in DOMAIN b.at : b.at[s].color = color}
Occ(b) == DOMAIN b.at
kingSq(b, color) == CHOOSE s \in Pieces(b, KING, color) : TRUE

\* chess::attacks
KingAttacks(sq) ==
    {t \in Squares : t # sq /\ Abs(FileOf(t) - FileOf(sq)) <= 1 /\ Abs(RankOf(t) - RankOf(sq)) <= 1}
KnightAttacks(sq) ==
    {t \in Squares : {Abs(FileOf(t) - FileOf(sq)), Abs(RankOf(t) - RankOf(sq))} = {1, 2}}
\* the squares strictly between two squares of one line
Between(sq, t) ==
    {u \in Squares :
        /\ u # sq /\ u # t
        /\ Min(FileOf(sq), FileOf(t)) <= FileOf(u) /\ FileOf(u) <= Max(FileOf(sq), FileOf(t))
        /\ Min(RankOf(sq), RankOf(t)) <= RankOf(u) /\ RankOf(u) <= Max(RankOf(sq), RankOf(t))
        /\ (FileOf(u) - FileOf(sq)) * (RankOf(t) - RankOf(sq))
              = (RankOf(u) - RankOf(sq)) * (FileOf(t) - FileOf(sq))}
RookAttacks(sq, occ) ==
    {t \in Squares : /\ t # sq
                     /\ (FileOf(t) = FileOf(sq) \/ RankOf(t) = RankOf(sq))
                     /\ Between(sq, t) \cap occ = {}}
BishopAttacks(sq, occ) ==
    {t \in Squares : /\ t # sq
                     /\ Abs(FileOf(t) - FileOf(sq)) = Abs(RankOf(t) - RankOf(sq))
                     /\ Between(sq, t) \cap occ = {}}
QueenAttacks(sq, occ) == RookAttacks(sq, occ) \cup BishopAttacks(sq, occ)

\* lines 265-268
flipSquare(sq) == FileOf(sq) + 8 * (7 - RankOf(sq))

\* lines 76-97
getPieceSquareValue(piece, sq, is_endgame, is_white) ==
    PST(piece, is_endgame, IF is_white THEN sq ELSE flipSquare(sq))

\* lines 112-126
getPhase(b) ==
    LET phase == TOTAL_PHASE
                   - SumOver({WHITE, BLACK} \X {KNIGHT, BISHOP, ROOK, QUEEN, KING},
                             [x \in {WHITE, BLACK} \X {KNIGHT, BISHOP, ROOK, QUEEN, KING} |->
                                Cardinality(Pieces(b, x[2], x[1])) * PHASE_VALUES[x[2] + 1]])
    IN  Max(0, Min(phase, TOTAL_PHASE))

\* lines 71-74
isEndgame(b) == getPhase(b) <= 8

\* lines 128-196
evaluatePawns(b, color) ==
    LET pawns == Pieces(b, PAWN, color)
        enemy == Pieces(b, PAWN, 1 - color)
        doubled(sq) == Cardinality({t \in pawns : FileOf(t) = FileOf(sq)}) > 1
        isolated(sq) == {t \in pawns : Abs(FileOf(t) - FileOf(sq)) = 1} = {}
        is_passed(sq) ==
            \A e \in enemy :
               Abs(FileOf(e) - FileOf(sq)) <= 1 =>
                  ~ \/ color = WHITE /\ RankOf(e) > RankOf(sq)
                    \/ color = BLACK /\ RankOf(e) < RankOf(sq)
        rank_bonus(sq) == IF color = WHITE THEN RankOf(sq) ELSE 7 - RankOf(sq)
    IN  SumOver(pawns,
                [sq \in pawns |->
                   (IF doubled(sq) THEN -20 ELSE 0)
                   + (IF isolated(sq) THEN -15 ELSE 0)
                   + (IF is_passed(sq) THEN 10 + rank_bonus(sq) * rank_bonus(sq) ELSE 0)])

\* lines 198-220
evaluateKingSafety(b, color) ==
    LET king_sq == kingSq(b, color)
        on_back_rank == \/ color = WHITE /\ RankOf(king_sq) = 0
                        \/ color = BLACK /\ RankOf(king_sq) = 7
        pawn_shield == KingAttacks(king_sq) \cap Pieces(b, PAWN, color)
    IN  IF ~isEndgame(b)
        THEN (IF on_back_rank THEN 10 ELSE 0) + Cardinality(pawn_shield) * 5
        ELSE 0

\* lines 222-263
evaluateMobility(b, color) ==
    LET free == Squares \ Us(b, color)
        count(pt, sq) ==
            CASE pt = KNIGHT -> Cardinality(KnightAttacks(sq) \cap free) * 2
              [] pt = BISHOP -> Cardinality(BishopAttacks(sq, Occ(b)) \cap free) * 3
              [] pt = ROOK   -> Cardinality(RookAttacks(sq, Occ(b)) \cap free) * 2
              [] pt = QUEEN  -> Cardinality(QueenAttacks(sq, Occ(b)) \cap free) * 1
              [] OTHER       -> 0
        movers == {s \in Us(b, color) : b.at[s].pt \in {KNIGHT, BISHOP, ROOK, QUEEN}}
    IN  SumOver(movers, [sq \in movers |-> count(b.at[sq].pt, sq)])

\* lines 270-273
interpolate(mg_score, eg_score, phase) ==
    TruncDiv(mg_score * phase + eg_score * (TOTAL_PHASE - phase), TOTAL_PHASE)

\* lines 14-43: the middlegame and endgame sums of one color
ColorScore(b, color) ==
    LET own == Us(b, color)
        material == SumOver(own, [sq \in own |-> PIECE_VALUES[b.at[sq].pt + 1]])
        pst(eg) == SumOver(own, [sq \in own |->
                      getPieceSquareValue(b.at[sq].pt, sq, eg, color = WHITE)])
    IN  [mg |-> material + pst(FALSE) + evaluatePawns(b, color)
                  + evaluateKingSafety(b, color) + evaluateMobility(b, color),
         eg |-> material + pst(TRUE) + evaluatePawns(b, color)]

\* lines 45-58: white minus black, tapered by the phase
FinalScore(b) ==
    LET white == ColorScore(b, WHITE)
        black == ColorScore(b, BLACK)
    IN  interpolate(white.mg - black.mg, white.eg - black.eg, getPhase(b))

\* a variant that returns the score from White's side whoever is to move
evaluate_WhiteView(b) == FinalScore(b)

\* Evaluation::evaluate, lines 6-62
evaluate(b) == IF b.stm = WHITE THEN FinalScore(b) ELSE -FinalScore(b)

\* the kings of every evaluated board, and the pieces a board may hold
EvalKings == (4 :> [pt |-> KING, color |-> WHITE]) @@ (62 :> [pt |-> KING, color |-> BLACK])
EvalPieces ==
    (12 :> [pt |-> PAWN, color |-> WHITE]) @@ (20 :> [pt |-> PAWN, color |-> WHITE])
    @@ (51 :> [pt |-> PAWN, color |-> BLACK]) @@ (44 :> [pt |-> PAWN, color |-> BLACK])
    @@ (1 :> [pt |-> KNIGHT, color |-> WHITE]) @@ (56 :> [pt |-> ROOK, color |-> BLACK])
    @@ (2 :> [pt |-> BISHOP, color |-> WHITE]) @@ (59 :> [pt |-> QUEEN, color |-> BLACK])
EvalBoards ==
    { [at |-> EvalKings @@ [s \in S |-> EvalPieces[s]], stm |-> WHITE] :
         S \in SUBSET DOMAIN EvalPieces }

\* the position with only the side to move switched
SwitchSide(b) == [b EXCEPT !.stm = 1 - @]

\* the engine holds one of the boards
InitEval ==
    /\ game = Game
    /\ now = 0
    /\ board = STARTPOS
    /\ tt = NewTable(DEFAULT_HASH_SIZE_MB)
    /\ info = InitInfo
    /\ searching = FALSE
    /\ srch = clearHistory(<<>>)
    /\ book = InitBook
    /\ th = [t \in Threads |-> IdleThread]
    /\ \E b \in EvalBoards : call = [op |-> "setFen", n |-> 0, a |-> b, r |-> 0]

\* a call of Evaluation::evaluate on the board, with either side to move
EvalCall ==
    \E stm \in {WHITE, BLACK} :
       LET b == [call.a EXCEPT !.stm = stm]
       IN  /\ call.n < MaxEvalCalls
           /\ call' = [op |-> "evaluate", n |-> call.n + 1, a |-> b, r |-> evaluate(b)]
           /\ UNCHANGED <<game, now, board, tt, info, searching, srch, book, th>>

NextEval == EvalCall

SpecEval == InitEval /\ [][NextEval]_vars

\* C22: for every position P, evaluate of P with only the side to move
\* switched is the negation of evaluate(P); the white-minus-black sums and
\* the phase do not depend on the side to move
C22_SideToMoveSymmetry ==
    call.op = "evaluate" =>
       /\ evaluate(SwitchSide(call.a)) = -call.r
       /\ \A color \in {WHITE, BLACK} : ColorScore(SwitchSide(call.a), color) = ColorScore(call.a, color)
       /\ getPhase(SwitchSide(call.a)) = getPhase(call.a)

\* a board with pawns, mobile pieces and a non-zero score was evaluated
C22_Witness ==
    /\ call.op = "evaluate"
    /\ call.r > 0
    /\ call.a.stm = BLACK
    /\ Cardinality(DOMAIN call.a.at) = 10
    /\ evaluateMobility(call.a, BLACK) > 0
    /\ evaluateKingSafety(call.a, WHITE) > 0

(***************************************************************************)
(* Claims about the move loop of Search::search, checked under SpecRoot.   *)
(***************************************************************************)
\* the states of a search frame while one of its moves is being searched
MoveStates == {"full", "zw", "zwfull", "lmr1", "lmr2"}

\* the position of the node of frame k of a thread's stack: the board holds
\* the positions to unmake to, from the root on, and the current position
FramePos(w, k) == Append(w.bc.prev, w.bc.pos)[k + 1]

\* frame k is searching a move the late-move reduction is meant for
LmrCase(w, k) ==
    LET f == w.stack[k]
        move == f.moves[f.i + 1]
    IN  /\ k < Len(w.stack)
        /\ f.kind = "search"
        /\ f.st \in MoveStates
        /\ f.i >= 4
        /\ f.depth >= 3
        /\ MoveTypeOf(move) = NORMAL
        /\ ~isCapture(FramePos(w, k), move)
        /\ ~game[FramePos(w, k)].check
        /\ ~game[FramePos(w, k + 1)].check

\* C23: a move at index i >= 4 of a node with depth >= 3 that is Normal, no
\* capture, played out of check and giving no check is first searched at
\* depth new_depth - reduction with the zero window, and searched again at
\* new_depth only after that
C23_LateMoveReduced ==
    \A k \in 1..Len(th[1].stack) :
       LmrCase(th[1], k) =>
          LET f == th[1].stack[k]
              c == th[1].stack[k + 1]
          IN  \/ /\ f.st = "lmr1"
                 /\ c.depth = f.new_depth - getReduction(f.moves[f.i + 1], f.depth, f.i, f.pv_node)
              \/ /\ f.st = "lmr2"
                 /\ c.depth = f.new_depth

\* C24: a node of search or searchRoot that leaves its move loop because
\* should_stop() answers true writes no entry to the transposition table:
\* no step that searchRoot takes while should_stop() is true changes the
\* table
C24_StoppedNodeStoresNothing ==
    [][(/\ ShouldStop
        /\ th[1].pc \in {"rootLoop", "rootRet", "search"}
        /\ th'[1] # th[1]) => tt' = tt]_vars

\* frame k of the thread has made a null move and is waiting for its search
NullMoveAt(w, k) == k < Len(w.stack) /\ w.stack[k].kind = "search" /\ w.stack[k].st = "null"

\* C25: no two consecutive plies are null moves; a null move is made only
\* at a node with beta - alpha = 1 and depth >= 3 whose side to move is not
\* in check and has non-pawn material; the node below it is called with
\* depth - (3 + depth/6) - 1 and the window (-beta, -beta + 1)
C25_NullMoveConditions ==
    \A k \in 1..Len(th[1].stack) :
       NullMoveAt(th[1], k) =>
          LET f == th[1].stack[k]
              c == th[1].stack[k + 1]
          IN  /\ ~NullMoveAt(th[1], k + 1)
              /\ f.beta - f.alpha = 1
              /\ f.depth >= 3
              /\ ~game[FramePos(th[1], k)].check
              /\ game[FramePos(th[1], k)].npm
              /\ game[FramePos(th[1], k + 1)].stm # game[FramePos(th[1], k)].stm
              /\ (c.kind = "search" /\ c.st = "enter") =>
                    /\ c.depth = f.depth - (3 + f.depth \div 6) - 1
                    /\ c.alpha = -f.beta
                    /\ c.beta = -f.beta + 1

\* a null move has been made and the search below it is about to start
C25_Witness ==
    \E k \in 1..Len(th[1].stack) :
       /\ NullMoveAt(th[1], k)
       /\ th[1].stack[k + 1].kind = "search"
       /\ th[1].stack[k + 1].st = "enter"
       /\ th[1].stack[k].depth >= 6

(***************************************************************************)
(* The mate-score adjustment through the table.  SpecScore stores a score  *)
(* as Search::search does at a ply and reads it back at the same ply.      *)
(***************************************************************************)
\* how far from the ends and from 0 the scores are taken
ScoreSpan == 130

AdjustScores ==
    (-MATE_VALUE .. -MATE_VALUE + ScoreSpan) \cup (-2 .. 2)
       \cup (MATE_VALUE - ScoreSpan .. MATE_VALUE)
AdjustPlies == {0, 1, 64, MAX_PLY - 1}
\* the node's position
AdjustHash == game[STARTPOS].hash

\* a node at ply has finished its moves with best_score
InitScore ==
    /\ game = Game
    /\ now = 0
    /\ board = STARTPOS
    /\ tt = NewTable(DEFAULT_HASH_SIZE_MB)
    /\ info = InitInfo
    /\ searching = FALSE
    /\ srch = clearHistory(<<>>)
    /\ book = InitBook
    /\ th = [t \in Threads |-> IdleThread]
    /\ \E best_score \in AdjustScores, ply \in AdjustPlies :
          call = [op |-> "node", n |-> 0, r |-> 0,
                  a |-> [best_score |-> best_score, ply |-> ply]]

\* lines 295-307 of Search::search
ScoreStore ==
    /\ call.op = "node"
    /\ tt' = store(tt, AdjustHash, 1, StoreScore(call.a.best_score, call.a.ply), TT_EXACT,
                   NO_MOVE, 0)
    /\ call' = [call EXCEPT !.op = "store", !.n = 1]
    /\ UNCHANGED <<game, now, board, info, searching, srch, book, th>>

\* lines 131-148 of Search::search, at the same ply
ScoreRead ==
    /\ call.op = "store"
    /\ call' = [call EXCEPT !.op = "read", !.n = 2,
                            !.r = TTScore(probe(tt, AdjustHash).entry.score, call.a.ply)]
    /\ UNCHANGED <<game, now, board, tt, info, searching, srch, book, th>>

NextScore == ScoreStore \/ ScoreRead

SpecScore == InitScore /\ [][NextScore]_vars

\* C26: for every score s with |s| <= MATE_VALUE and every ply p in 0..127
\* the value search stores for s at ply p fits in a signed 16-bit integer
\* (the entry holds it unchanged), and reading the entry at the same ply
\* gives back s
C26_MateScoreRoundTrip ==
    /\ call.op \in {"store", "read"} =>
          /\ probe(tt, AdjustHash).found
          /\ probe(tt, AdjustHash).entry.score = StoreScore(call.a.best_score, call.a.ply)
          /\ probe(tt, AdjustHash).entry.score \in -32768..32767
    /\ call.op = "read" => call.r = call.a.best_score

\* the largest mate score was stored at the deepest ply and read back
C26_Witness ==
    /\ call.op = "read"
    /\ call.a.best_score = MATE_VALUE
    /\ call.a.ply = MAX_PLY - 1
    /\ probe(tt, AdjustHash).entry.score = MATE_VALUE + MAX_PLY - 1

\* a frame that has made a move and called the search of it
Waiting(f) ==
    \/ f.kind = "search" /\ f.st \in MoveStates \cup {"null"}
    \/ f.kind = "qs" /\ f.st = "wait"

RECURSIVE MovedTo(_, _, _)
\* the position the move that frame k is searching leads to, from the moves
\* the frames have chosen; frame 0 is searchRoot on position root
MovedTo(w, root, k) ==
    IF k = 0 THEN PosAfter(root, w.root.moves[w.root.i + 1])
    ELSE LET f == w.stack[k]
             p == MovedTo(w, root, k - 1)
         IN  IF f.kind = "search" /\ f.st = "null" THEN game[p].nullTo
             ELSE PosAfter(p, f.moves[f.i + 1])

\* the positions a board holds, oldest first, when every call that has
\* returned left the board as it was at its entry
EntryBoards(w, root) ==
    LET n == Len(w.stack)
        made == IF w.pc = "rootRet" THEN 1
                ELSE IF w.pc # "search" THEN 0
                ELSE IF Waiting(w.stack[n]) THEN n + 1 ELSE n
    IN  <<root>> \o [k \in 1..made |-> MovedTo(w, root, k - 1)]

\* C27: every return from search and quiescence leaves the board equal to
\* the board at entry, each makeMove and makeNullMove being matched by its
\* unmake, and searchRoot leaves the engine's own position unchanged
C27_BoardRestored ==
    /\ th[1].pc \in {"rootLoop", "rootRet", "search"} =>
          Append(th[1].bc.prev, th[1].bc.pos) = EntryBoards(th[1], call.a.pos)
    /\ call.op = "searchRoot" => board = call.a.pos

\* a quiescence call made by quiescence has returned on stop, and a search
\* call has returned to a frame two plies below the root
C27_Witness ==
    /\ call.op = "searchRoot"
    /\ th[1].pc = "search"
    /\ th[1].sawstop
    /\ Waiting(Top(th[1]))
    /\ Top(th[1]).kind = "qs"
    /\ th[1].rc.kind = "qs"
    /\ Len(th[1].stack) >= 2

\* the value C28 gives the piece a capture takes in position p
ClaimedCaptureValue(p, move) ==
    IF MoveTypeOf(move) = ENPASSANT THEN 100 ELSE CapturedValue(PieceAt(p, MoveTo(move)))

\* C28: in quiescence, when the side to move is not in check, a capture is
\* skipped exactly when stand_pat + v + 200 < alpha, where v is the value of
\* the captured piece and v = 100 for an en passant capture
C28_DeltaPruning ==
    [][(/\ th[1].pc = "search"
        /\ Top(th[1]).kind = "qs"
        /\ Top(th[1]).st = "loop"
        /\ ~ShouldStop
        /\ ~game[th[1].bc.pos].check
        /\ th'[1] # th[1])
       => LET f == Top(th[1])
              searched == /\ th'[1].pc = "search"
                          /\ Len(th'[1].stack) = Len(th[1].stack) + 1
          IN  ~searched <=>
                 f.stand_pat + ClaimedCaptureValue(th[1].bc.pos, f.moves[f.i + 1]) + 200 < f.alpha
      ]_vars

(***************************************************************************)
(* The history table under the depths a search within MAX_DEPTH gives.     *)
(* SpecHistory calls updateHistory and clearHistory in any order.          *)
(***************************************************************************)
MaxHistCalls == 4

HistMoves == {Ra1a2, Nb1c3}
HistDepths == {1, 32, MAX_DEPTH}

\* Search::updateHistory(move, color, depth)
HistUpdate ==
    \E color \in {WHITE, BLACK}, move \in HistMoves, depth \in HistDepths :
       /\ call.n < MaxHistCalls
       /\ srch' = [srch EXCEPT !.hist = updateHistory(@, move, color, depth)]
       /\ call' = [op |-> "updateHistory", n |-> call.n + 1, r |-> 0,
                   a |-> [color |-> color, move |-> move, depth |-> depth]]
       /\ UNCHANGED <<game, now, board, tt, info, searching, book, th>>

\* Search::clearHistory()
HistClear ==
    /\ call.n < MaxHistCalls
    /\ srch' = clearHistory(srch)
    /\ call' = [op |-> "clearHistory", n |-> call.n + 1, r |-> 0, a |-> <<>>]
    /\ UNCHANGED <<game, now, board, tt, info, searching, book, th>>

NextHist == HistUpdate \/ HistClear

SpecHistory == Init /\ [][NextHist]_vars

\* C29: after any sequence of updateHistory calls with depth in 1..64 from
\* clearHistory on, every history counter is in [0, 10000], and a call for
\* one color changes no counter of the other color
C29_HistoryBounded ==
    /\ [](\A c \in DOMAIN srch.hist : srch.hist[c] >= 0 /\ srch.hist[c] <= 10000)
    /\ [][call'.op = "updateHistory" =>
             \A c \in (DOMAIN srch.hist) \cup (DOMAIN srch'.hist) :
                c[1] # call'.a.color =>
                   HistoryAt(srch'.hist, c[1], c[2], c[3]) = HistoryAt(srch.hist, c[1], c[2], c[3])]_vars

\* a call has halved the counters of one color while the other color holds
\* a counter that is not zero
C29_Witness ==
    /\ call.op = "updateHistory"
    /\ call.a.color = WHITE
    /\ HistoryAt(srch.hist, WHITE, MoveFrom(call.a.move), MoveTo(call.a.move))
          = (3 * MAX_DEPTH * MAX_DEPTH) \div 2
    /\ \E m \in HistMoves : HistoryAt(srch.hist, BLACK, MoveFrom(m), MoveTo(m)) = 1

(***************************************************************************)
(* Claim about probe on empty slots, checked under SpecTT.                 *)
(***************************************************************************)
\* C30: probe never returns a slot whose flag is None; after clear() and
\* before any store it returns no entry for every hash, hash 0 included
C30_ProbeSkipsEmptySlots ==
    \A h \in {0} \cup StoreHashes :
       probe(tt, h).found => probe(tt, h).entry.flag # TT_NONE

=============================================================================
